---- MODULE Spec2Model ----
(***************************************************************************)
(* ThreadsStore of ai-threads (MobX store over IndexedDB and an AI         *)
(* provider), as a state machine.                                          *)
(*                                                                         *)
(* Every async method is cut at its awaits: the action named after the     *)
(* method is the synchronous part up to the first await, and each          *)
(* <method>_<pc> action is the continuation that runs when the awaited     *)
(* call named by pc returns.  A Gateway call takes effect on the database  *)
(* in the step that issues it; IndexedDB runs read-write transactions on   *)
(* one object store in the order they were created, so continuations that  *)
(* wait on the same object store resume in issue order (calls is kept in   *)
(* the order of the pending awaits).                                       *)
(*                                                                         *)
(* Arrays and thought objects are shared by reference in the source:       *)
(* heap holds the arrays, thoughts[t] and a call's ref point into it, and  *)
(* obj holds the thought objects by id.                                    *)
(***************************************************************************)
EXTENDS Integers, Sequences, FiniteSets, TLC

\* Bounds of the model.
MaxNew == 2         \* thoughts created in one run, beyond those loaded at the start
MaxCalls == 2       \* store operations in flight at the same time
MaxNewSelect == 1   \* thoughts created in a run that also selects thoughts
MaxNewSerial == 1   \* thoughts created in a run of every operation, one at a time
MaxNewStore == 4    \* ids handed out in a run that creates and imports threads
MaxNewContext == 3  \* ids handed out in a run over two threads
MaxThreads == 3     \* threads the store holds at the same time
MaxClock == 2       \* ticks of Date.now() in a run

\* Program constants.
PruneKeep == 5                  \* pruneUnselected: unselectedAI.slice(5)
DefaultGenerationCount == 3     \* createThread: generationCount: 3

ThreadIds == {1}
NoRef == 0
Refs == 1..(MaxThreads + MaxCalls)
Ctls == 1..MaxCalls

\* Candidate strings returned by one AI request: parsed.slice(0, count), never empty.
BatchSizes == {n \in 1..DefaultGenerationCount : n <= MaxNew}
\* Token usage reported by one AI request.
Usages == {[tokensIn |-> 2, tokensOut |-> 1]}

VARIABLES
    threads,          \* this.threads: thread id -> Thread (stats only)
    thoughts,         \* this.thoughts: thread id -> array reference
    heap,             \* array reference -> sequence of thought ids
    obj,              \* thought id -> Thought object (in memory)
    threadCounts,     \* this.threadCounts
    selectedCounts,   \* this.selectedCounts
    isGenerating,     \* this.isGenerating
    error,            \* this.error
    abortController,  \* this.abortController: controller id, 0 for null
    settings,         \* settingsStore.settings
    db,               \* object store 'thoughts': id -> plain Thought
    dbThreads,        \* object store 'threads'
    dbSettings,       \* object store 'settings'
    calls,            \* the operations in flight, in the order of their pending awaits
    nextId,           \* next id uuid() hands out
    serial,           \* TRUE: the caller awaits each operation before issuing the next
    now,              \* Date.now()
    thrown,           \* the error of the last promise a store method rejected, or "none"
    store             \* the other observable fields of ThreadsStore: isLoading, starredThoughts

vars == <<threads, thoughts, heap, obj, threadCounts, selectedCounts, isGenerating,
          error, abortController, settings, db, dbThreads, dbSettings, calls, nextId,
          serial, now, thrown, store>>

----------------------------------------------------------------------------
\* Helpers

Max(a, b) == IF a >= b THEN a ELSE b

Range(s) == {s[i] : i \in 1..Len(s)}

Arr(r) == IF r = NoRef THEN <<>> ELSE heap[r]

\* this.thoughts.get(threadId) || []
List(t) == Arr(thoughts[t])

\* Math.max(...thoughts.map(t => t.order)), -1 for an empty array
MaxOrder(s) ==
    IF s = <<>> THEN -1
    ELSE CHOOSE m \in {obj[s[i]].order : i \in 1..Len(s)} :
            \A i \in 1..Len(s) : obj[s[i]].order <= m

\* The references that are still reachable, and the heap without the others.
Live(th, cs) == ({th[t] : t \in DOMAIN th} \cup {cs[i].ref : i \in 1..Len(cs)}) \ {NoRef}
Sweep(h, th, cs) == [r \in Refs |-> IF r \in Live(th, cs) THEN h[r] ELSE <<>>]
NewRef(used) == CHOOSE r \in Refs \ used : \A q \in Refs \ used : r <= q

\* The thoughts some array or some call in flight still refers to; the objects of the
\* others are garbage (obj keeps their author and order, as a record of what was assigned).
Reach(h, cs) ==
    UNION {Range(h[r]) : r \in Refs}
        \cup {cs[i].id : i \in 1..Len(cs)}
        \cup UNION {Range(cs[i].new) : i \in 1..Len(cs)}
Collect(o, h, cs) ==
    [x \in DOMAIN o |-> IF x \in Reach(h, cs) THEN o[x] ELSE [o[x] EXCEPT !.selected = FALSE]]

\* db.put / tx.store.delete on the 'thoughts' object store
Put(d, id, rec) == [k \in DOMAIN d \cup {id} |-> IF k = id THEN rec ELSE d[k]]
Delete(d, ids) == [k \in DOMAIN d \ ids |-> d[k]]

\* A Thread as createThread builds it (createdAt left out).
NoPrompt == 0
NewThread(at, pinned, prompt) ==
    [title |-> "Untitled", stats |-> [tokensIn |-> 0, tokensOut |-> 0], updatedAt |-> at,
     pinned |-> pinned, threadPrompt |-> prompt, generationCount |-> DefaultGenerationCount]

\* A Thought as addUserThought, generateBatch and importData build it (createdAt left out).
NewThought(t, author, selected, order, text) ==
    [th |-> t, author |-> author, selected |-> selected, order |-> order, text |-> text,
     starred |-> FALSE, edited |-> FALSE]

\* An import document whose threads field is an empty array.
EmptyDocument == [kind |-> "array", items |-> <<>>]

Idle == [op |-> "none", pc |-> "none", th |-> 0, id |-> 0, ref |-> NoRef, ids |-> {},
         was |-> FALSE, regen |-> FALSE, ctl |-> 0, aborted |-> FALSE, new |-> <<>>,
         context |-> <<>>, failed |-> FALSE, thread |-> NewThread(0, FALSE, NoPrompt),
         doc |-> EmptyDocument, loaded |-> <<>>, bad |-> {}, newText |-> 0, k |-> 0, thr0 |-> {}, tok0 |-> <<0, 0, 0, 0>>,
         at0 |-> 0,
         usage |-> [tokensIn |-> 0, tokensOut |-> 0],
         list0 |-> <<>>, sel0 |-> {}, db0 |-> {}, sc0 |-> 0]

Without(i) == SubSeq(calls, 1, i - 1) \o SubSeq(calls, i + 1, Len(calls))
Requeue(i, c) == Append(Without(i), c)

\* The object store an await waits on; the AI request is not a database call.
Awaited(c) ==
    CASE c.pc \in {"saveThought", "saveThoughts", "deleteThought", "deleteThoughts",
                   "counts", "getThoughtsByThread", "getStarredThoughts"} -> "thoughts"
      [] c.pc \in {"saveThread", "dbDeleteThread", "getAllThreads"} -> "threads"
      [] c.pc = "saveSettings" -> "settings"
      [] OTHER -> "ai"

\* The await of calls[i] can return now.
Ready(i) ==
    \/ Awaited(calls[i]) = "ai"
    \/ \A j \in 1..(i - 1) : Awaited(calls[j]) # Awaited(calls[i])

At(i, op, pc) == /\ calls[i].op = op /\ calls[i].pc = pc /\ Ready(i) /\ ~calls[i].failed

CanCall == IF serial THEN calls = <<>> ELSE Len(calls) < MaxCalls

\* History kept in a call of a serial run: the thread's array, the selected thoughts,
\* the persisted ids, the threads, the token counts and the time as they were when the
\* operation was called.
Begin(op, t) ==
    [Idle EXCEPT !.op = op, !.th = t,
                 !.list0 = IF serial /\ t \in DOMAIN thoughts THEN List(t) ELSE <<>>,
                 !.sel0 = IF serial /\ t \in DOMAIN thoughts
                          THEN {x \in Range(List(t)) : obj[x].selected} ELSE {},
                 !.db0 = IF serial THEN DOMAIN db ELSE {},
                 !.sc0 = IF serial /\ t \in DOMAIN selectedCounts
                         THEN selectedCounts[t] ELSE 0,
                 !.thr0 = IF serial THEN DOMAIN threads ELSE {},
                 !.at0 = IF serial THEN now ELSE 0,
                 !.tok0 = IF serial /\ t \in DOMAIN threads
                          THEN <<threads[t].stats.tokensIn, threads[t].stats.tokensOut,
                                 settings.totalTokensIn, settings.totalTokensOut>>
                          ELSE <<0, 0, 0, 0>>]

----------------------------------------------------------------------------
\* Initial state: one thread, created or loaded with its thoughts.

User == [author |-> "user", selected |-> TRUE]
Cand == [author |-> "ai", selected |-> FALSE]

InitialLists == {<<>>, <<User>>, <<User, Cand, Cand>>}
\* A thread showing a batch of candidates.
InitialListsSelect == {<<User>>, <<User, Cand, Cand>>}
\* A thread holding as many candidates as pruneUnselected keeps.
InitialListsSerial == InitialLists \cup {<<User>> \o [i \in 1..PruneKeep |-> Cand]}

\* uuid() never returns the id of a loaded thought.
FirstFresh == 1 + Cardinality(UNION {DOMAIN l : l \in InitialListsSerial \cup InitialListsSelect})
LastFresh == FirstFresh + Max(MaxNew, MaxNewStore) - 1
\* uuid() also names the threads created in a run.
AllThreadIds == ThreadIds \cup (FirstFresh..LastFresh)
\* Overlapping toggles of one thought add the same delta twice, so the selected
\* counter can drift without limit; no toggle is issued once it has left this range.
SelectedCountRange == 0..(FirstFresh + MaxNew - 1)

\* Candidates come from generateBatch only, which a store that is not configured refuses.
InitWith(l, configured, ser, fresh) ==
    /\ configured \/ \A i \in DOMAIN l : l[i].author = "user"
    /\ threads = [t \in ThreadIds |-> NewThread(0, FALSE, NoPrompt)]
    /\ thoughts = [t \in AllThreadIds |-> IF t \in ThreadIds THEN t ELSE NoRef]
    /\ heap = [r \in Refs |-> IF r = 1 THEN [i \in 1..Len(l) |-> i] ELSE <<>>]
    /\ obj = [i \in 1..Len(l) |->
                NewThought(1, l[i].author, l[i].selected, i - 1, i)]
    /\ threadCounts = [t \in ThreadIds |-> IF t = 1 THEN Len(l) ELSE 0]
    /\ selectedCounts =
         [t \in ThreadIds |->
            IF t = 1 THEN Cardinality({i \in 1..Len(l) : l[i].selected}) ELSE 0]
    /\ isGenerating = FALSE
    /\ error = "none"
    /\ abortController = 0
    /\ settings = [apiKey |-> IF configured THEN "key" ELSE "", model |-> "model",
                   totalTokensIn |-> 0, totalTokensOut |-> 0]
    /\ db = obj
    /\ dbThreads = threads
    /\ dbSettings = settings
    /\ calls = <<>>
    /\ nextId = LastFresh + 1 - fresh
    /\ serial = ser
    /\ now = 0
    /\ thrown = "none"
    /\ store = [isLoading |-> FALSE, starredThoughts |-> <<>>]

Init == \E l \in InitialLists, configured \in BOOLEAN : InitWith(l, configured, FALSE, MaxNew)

InitSerial == \E l \in InitialListsSerial, configured \in BOOLEAN :
                InitWith(l, configured, TRUE, MaxNewSerial)

InitInsert == \E l \in InitialLists, configured \in BOOLEAN : InitWith(l, configured, TRUE, MaxNew)

InitSelect == \E l \in InitialListsSelect, configured \in BOOLEAN :
                InitWith(l, configured, FALSE, MaxNewSelect)

----------------------------------------------------------------------------
\* addUserThought

addUserThought(t) ==
    /\ CanCall
    /\ nextId <= LastFresh
    /\ LET thought == NewThought(t, "user", TRUE, MaxOrder(List(t)) + 1, 0)
           c == [Begin("addUserThought", t) EXCEPT !.pc = "saveThought", !.id = nextId]
       IN /\ obj' = Put(obj, nextId, thought)
          /\ db' = Put(db, nextId, thought)
          /\ calls' = Append(calls, c)
    /\ nextId' = nextId + 1
    /\ UNCHANGED <<threads, thoughts, heap, threadCounts, selectedCounts, isGenerating,
                   error, abortController, settings, dbThreads, dbSettings, serial>>
    /\ UNCHANGED <<now, thrown>>
    /\ UNCHANGED store

addUserThought_saveThought(i) ==
    /\ At(i, "addUserThought", "saveThought")
    /\ LET c == calls[i]
           t == c.th
           r == IF thoughts[t] = NoRef THEN NewRef(Live(thoughts, calls)) ELSE thoughts[t]
           pushed == Append(List(t), c.id)
       IN /\ thoughts' = [thoughts EXCEPT ![t] = r]
          /\ calls' = Requeue(i, [c EXCEPT !.pc = "saveThread"])
          /\ heap' = Sweep([heap EXCEPT ![r] = pushed], thoughts', calls')
          /\ threadCounts' = [threadCounts EXCEPT ![t] = Len(pushed)]
          /\ selectedCounts' = [selectedCounts EXCEPT ![t] = @ + 1]
          /\ threads' = [threads EXCEPT ![t].updatedAt = now]
          /\ dbThreads' = [dbThreads EXCEPT ![t] = threads'[t]]
    /\ obj' = Collect(obj, heap', calls')
    /\ UNCHANGED <<isGenerating, error, abortController, settings, db,
                   dbSettings, nextId, serial>>
    /\ UNCHANGED <<now, thrown>>
    /\ UNCHANGED store

addUserThought_saveThread(i) ==
    /\ At(i, "addUserThought", "saveThread")
    /\ calls' = Without(i)
    /\ heap' = Sweep(heap, thoughts, calls')
    /\ obj' = Collect(obj, heap', calls')
    /\ UNCHANGED <<threads, thoughts, threadCounts, selectedCounts, isGenerating,
                   error, abortController, settings, db, dbThreads, dbSettings, nextId,
                   serial>>
    /\ UNCHANGED <<now, thrown>>
    /\ UNCHANGED store

----------------------------------------------------------------------------
\* toggleSelected

\* (the same filter without the comparison of orders)
UnselectedBeforeAnyOrder(s, id) ==
    Range(SelectSeq(s, LAMBDA x : ~obj[x].selected /\ obj[x].author = "ai"))
\* thoughts.filter(t => !t.selected && t.author === 'ai' && t.order < thought.order)
UnselectedBefore(s, id) ==
    Range(SelectSeq(s, LAMBDA x : /\ ~obj[x].selected
                                  /\ obj[x].author = "ai"
                                  /\ obj[x].order < obj[id].order))

\* (a delta that only counts up)
SelectedDeltaUp(id) == 1
\* selectedDelta, read from the thought after the await of saveThought
SelectedDelta(id) == IF obj[id].selected THEN 1 ELSE -1

\* (a cascade after every toggle)
CascadesAlways(c) == TRUE
\* !wasSelected && thought.author === 'ai'
Cascades(c) == ~c.was /\ obj[c.id].author = "ai"

\* thoughts.filter(t => !idsToDelete.includes(t.id))
Remaining(s, ids) == SelectSeq(s, LAMBDA x : x \notin ids)

toggleSelected(t, id) ==
    /\ CanCall
    /\ selectedCounts[t] \in SelectedCountRange
    /\ id \in Range(List(t))
    /\ LET c == [Begin("toggleSelected", t) EXCEPT !.pc = "saveThought", !.id = id,
                             !.ref = thoughts[t], !.was = obj[id].selected]
       IN /\ obj' = [obj EXCEPT ![id].selected = ~@]
          /\ db' = Put(db, id, obj'[id])
          /\ calls' = Append(calls, c)
    /\ UNCHANGED <<threads, thoughts, heap, threadCounts, selectedCounts, isGenerating,
                   error, abortController, settings, dbThreads, dbSettings, nextId, serial>>
    /\ UNCHANGED <<now, thrown>>
    /\ UNCHANGED store

toggleSelected_saveThought(i) ==
    /\ At(i, "toggleSelected", "saveThought")
    /\ LET c == calls[i]
           idsToDelete == UnselectedBefore(Arr(c.ref), c.id)
       IN /\ selectedCounts' = [selectedCounts EXCEPT ![c.th] = @ + SelectedDelta(c.id)]
          /\ IF Cascades(c) /\ idsToDelete # {}
             THEN /\ db' = Delete(db, idsToDelete)
                  /\ calls' = Requeue(i, [c EXCEPT !.pc = "deleteThoughts",
                                                   !.ids = idsToDelete])
             ELSE /\ db' = db
                  /\ calls' = Without(i)
          /\ heap' = Sweep(heap, thoughts, calls')
    /\ obj' = Collect(obj, heap', calls')
    /\ UNCHANGED <<threads, thoughts, threadCounts, isGenerating, error,
                   abortController, settings, dbThreads, dbSettings, nextId, serial>>
    /\ UNCHANGED <<now, thrown>>
    /\ UNCHANGED store

\* (the filtered array installed without this.threadCounts.set)
SetFilteredOnly(i) ==
    LET c == calls[i]
        filtered == Remaining(Arr(c.ref), c.ids)
        rest == Without(i)
        r == NewRef(Live([thoughts EXCEPT ![c.th] = NoRef], rest))
    IN /\ thoughts' = [thoughts EXCEPT ![c.th] = r]
       /\ calls' = rest
       /\ heap' = Sweep([heap EXCEPT ![r] = filtered], thoughts', calls')
       /\ threadCounts' = threadCounts
       /\ obj' = Collect(obj, heap', calls')

\* this.thoughts.set(threadId, filtered); this.threadCounts.set(threadId, filtered.length)
SetFiltered(i) ==
    LET c == calls[i]
        filtered == Remaining(Arr(c.ref), c.ids)
        rest == Without(i)
        r == NewRef(Live([thoughts EXCEPT ![c.th] = NoRef], rest))
    IN /\ thoughts' = [thoughts EXCEPT ![c.th] = r]
       /\ calls' = rest
       /\ heap' = Sweep([heap EXCEPT ![r] = filtered], thoughts', calls')
       /\ threadCounts' = [threadCounts EXCEPT ![c.th] = Len(filtered)]
       /\ obj' = Collect(obj, heap', calls')

toggleSelected_deleteThoughts(i) ==
    /\ At(i, "toggleSelected", "deleteThoughts")
    /\ SetFiltered(i)
    /\ UNCHANGED <<threads, selectedCounts, isGenerating, error, abortController,
                   settings, db, dbThreads, dbSettings, nextId, serial>>
    /\ UNCHANGED <<now, thrown>>
    /\ UNCHANGED store

\* toggleSelected whose saveThought will reject: the flag is flipped in memory and
\* nothing is written.
toggleSelected_failing(t, id) ==
    /\ CanCall
    /\ selectedCounts[t] \in SelectedCountRange
    /\ id \in Range(List(t))
    /\ LET c == [Begin("toggleSelected", t) EXCEPT !.pc = "saveThought", !.id = id,
                             !.ref = thoughts[t], !.was = obj[id].selected,
                             !.failed = TRUE]
       IN /\ obj' = [obj EXCEPT ![id].selected = ~@]
          /\ calls' = Append(calls, c)
    /\ UNCHANGED <<threads, thoughts, heap, threadCounts, selectedCounts, isGenerating,
                   error, abortController, settings, db, dbThreads, dbSettings, nextId,
                   serial, now, thrown, store>>

\* saveThought returns, and the deleteThoughts of the cascade will reject: the counter
\* is updated and nothing is deleted.
toggleSelected_saveThoughtFailing(i) ==
    /\ At(i, "toggleSelected", "saveThought")
    /\ LET c == calls[i]
           idsToDelete == UnselectedBefore(Arr(c.ref), c.id)
       IN /\ Cascades(c) /\ idsToDelete # {}
          /\ selectedCounts' = [selectedCounts EXCEPT ![c.th] = @ + SelectedDelta(c.id)]
          /\ calls' = Requeue(i, [c EXCEPT !.pc = "deleteThoughts", !.ids = idsToDelete,
                                           !.failed = TRUE])
    /\ UNCHANGED <<threads, thoughts, heap, obj, threadCounts, isGenerating, error,
                   abortController, settings, db, dbThreads, dbSettings, nextId, serial,
                   now, thrown, store>>

----------------------------------------------------------------------------
\* deleteThought

deleteThought(t, id) ==
    /\ CanCall
    /\ id \in Range(List(t))
    /\ LET c == [Begin("deleteThought", t) EXCEPT !.pc = "deleteThought", !.id = id,
                             !.ref = thoughts[t], !.was = obj[id].selected]
       IN /\ db' = Delete(db, {id})
          /\ calls' = Append(calls, c)
    /\ UNCHANGED <<threads, thoughts, heap, obj, threadCounts, selectedCounts,
                   isGenerating, error, abortController, settings, dbThreads, dbSettings,
                   nextId, serial>>
    /\ UNCHANGED <<now, thrown>>
    /\ UNCHANGED store

deleteThought_deleteThought(i) ==
    /\ At(i, "deleteThought", "deleteThought")
    /\ LET c == calls[i]
           spliced == Remaining(Arr(c.ref), {c.id})
       IN /\ calls' = Without(i)
          /\ IF c.ref # NoRef
             THEN /\ heap' = Sweep([heap EXCEPT ![c.ref] = spliced], thoughts, calls')
                  /\ threadCounts' = [threadCounts EXCEPT ![c.th] = Len(spliced)]
                  /\ selectedCounts' =
                       IF c.was
                       THEN [selectedCounts EXCEPT ![c.th] = Max(0, @ - 1)]
                       ELSE selectedCounts
             ELSE /\ heap' = Sweep(heap, thoughts, calls')
                  /\ UNCHANGED <<threadCounts, selectedCounts>>
    /\ obj' = Collect(obj, heap', calls')
    /\ UNCHANGED <<threads, thoughts, isGenerating, error, abortController, settings,
                   db, dbThreads, dbSettings, nextId, serial>>
    /\ UNCHANGED <<now, thrown>>
    /\ UNCHANGED store

----------------------------------------------------------------------------
\* pruneUnselected

\* thoughts.filter(t => t.author === 'ai' && !t.selected)
UnselectedAI(s) == SelectSeq(s, LAMBDA x : obj[x].author = "ai" /\ ~obj[x].selected)

\* Position of u[p] after u.sort((a, b) => b.order - a.order), counted from 0 (the sort is stable).
SortedIndex(u, p) ==
    Cardinality({q \in 1..Len(u) :
        \/ obj[u[q]].order > obj[u[p]].order
        \/ obj[u[q]].order = obj[u[p]].order /\ q < p})

\* (the same slice after an ascending sort)
ToDeleteAscending(s) ==
    LET u == UnselectedAI(s)
    IN {u[p] : p \in {q \in 1..Len(u) : SortedIndex(u, q) < Len(u) - PruneKeep}}
\* unselectedAI.slice(5).map(t => t.id)
ToDelete(s) ==
    LET u == UnselectedAI(s)
    IN {u[p] : p \in {q \in 1..Len(u) : SortedIndex(u, q) >= PruneKeep}}

pruneUnselected(t) ==
    /\ CanCall
    /\ thoughts[t] # NoRef
    /\ ToDelete(List(t)) # {}
    /\ LET c == [Begin("pruneUnselected", t) EXCEPT !.pc = "deleteThoughts",
                             !.ref = thoughts[t], !.ids = ToDelete(List(t))]
       IN /\ db' = Delete(db, c.ids)
          /\ calls' = Append(calls, c)
    /\ UNCHANGED <<threads, thoughts, heap, obj, threadCounts, selectedCounts,
                   isGenerating, error, abortController, settings, dbThreads, dbSettings,
                   nextId, serial>>
    /\ UNCHANGED <<now, thrown>>
    /\ UNCHANGED store

pruneUnselected_deleteThoughts(i) ==
    /\ At(i, "pruneUnselected", "deleteThoughts")
    /\ SetFiltered(i)
    /\ UNCHANGED <<threads, selectedCounts, isGenerating, error, abortController,
                   settings, db, dbThreads, dbSettings, nextId, serial>>
    /\ UNCHANGED <<now, thrown>>
    /\ UNCHANGED store

----------------------------------------------------------------------------
\* cancelGeneration

cancelGeneration ==
    /\ abortController # 0
    /\ calls' = [i \in 1..Len(calls) |->
                   IF calls[i].ctl = abortController
                   THEN [calls[i] EXCEPT !.aborted = TRUE]
                   ELSE calls[i]]
    /\ abortController' = 0
    /\ isGenerating' = FALSE
    /\ UNCHANGED <<threads, thoughts, heap, obj, threadCounts, selectedCounts, error,
                   settings, db, dbThreads, dbSettings, nextId, serial>>
    /\ UNCHANGED <<now, thrown>>
    /\ UNCHANGED store

----------------------------------------------------------------------------
\* generateBatch

\* if (this.isGenerating) return
Refused == isGenerating

\* Boolean(this.settings.apiKey && this.settings.model)
isConfigured == settings.apiKey # "" /\ settings.model # ""

\* (the same filter without the test of selected)
AllCandidates(s) == Range(SelectSeq(s, LAMBDA x : obj[x].author = "ai"))
\* thoughts.filter(t => t.author === 'ai' && !t.selected).map(t => t.id)
UnselectedCandidates(s) == Range(UnselectedAI(s))

\* new AbortController(): a controller no generation in flight holds
NewCtl(cs) == CHOOSE k \in Ctls \ {cs[i].ctl : i \in 1..Len(cs)} :
                \A q \in Ctls \ {cs[i].ctl : i \in 1..Len(cs)} : k <= q

\* (the same order for every thought of the batch)
BatchOrderFlat(s, k) == MaxOrder(s) + 1
\* order: maxOrder + 1 + i
BatchOrder(s, k) == MaxOrder(s) + 1 + k

\* (the candidate created selected)
CandidateSelected(t, s, k) == NewThought(t, "ai", TRUE, BatchOrder(s, k), k + 1)
\* The Thought built from the k-th (from 0) string of result.thoughts; its text is named
\* by its place in the result.
Candidate(t, s, k) == NewThought(t, "ai", FALSE, BatchOrder(s, k), k + 1)

\* thoughts.sort((a, b) => a.order - b.order): a stable sort, equal orders keep their places
InsertByOrder(s, x) ==
    LET before == SelectSeq(s, LAMBDA y : obj[y].order <= obj[x].order)
        after == SelectSeq(s, LAMBDA y : obj[y].order > obj[x].order)
    IN before \o <<x>> \o after
RECURSIVE SortByOrder(_)
SortByOrder(s) ==
    IF s = <<>> THEN <<>>
    ELSE InsertByOrder(SortByOrder(SubSeq(s, 1, Len(s) - 1)), s[Len(s)])

\* (the whole array, candidates included)
ContextUnfiltered(s) == SortByOrder(s)
\* buildContext(thoughts.filter(t => t.selected)): the thoughts the prompt is built from
Context(s) == SortByOrder(SelectSeq(s, LAMBDA x : obj[x].selected))

\* visibleStream: thoughts.slice().sort((a, b) => a.order - b.order)
visibleStream(t) == SortByOrder(List(t))

\* this.abortController = new AbortController(); this.isGenerating = true; this.error = null
StartRequest(k) ==
    /\ abortController' = k
    /\ isGenerating' = TRUE
    /\ error' = "none"

\* (the regenerate deletion done before the test of the configuration)
generateBatch_unconfiguredAfterDeletion(t) ==
    /\ CanCall
    /\ ~Refused
    /\ ~isConfigured
    /\ error' = "Please configure API key and model in settings"
    /\ db' = Delete(db, UnselectedCandidates(List(t)))
    /\ UNCHANGED <<threads, thoughts, heap, obj, threadCounts, selectedCounts,
                   isGenerating, abortController, settings, dbThreads, dbSettings,
                   calls, nextId, serial, now, thrown>>
    /\ UNCHANGED store

generateBatch_unconfigured(t) ==
    /\ CanCall
    /\ ~Refused
    /\ ~isConfigured
    /\ error' = "Please configure API key and model in settings"
    /\ UNCHANGED <<threads, thoughts, heap, obj, threadCounts, selectedCounts,
                   isGenerating, abortController, settings, db, dbThreads, dbSettings,
                   calls, nextId, serial>>
    /\ UNCHANGED <<now, thrown>>
    /\ UNCHANGED store

generateBatch(t, regenerate) ==
    /\ CanCall
    /\ ~Refused
    /\ isConfigured
    /\ t \in DOMAIN threads
    /\ nextId <= LastFresh
    /\ LET idsToDelete == UnselectedCandidates(List(t))
           c == [Begin("generateBatch", t) EXCEPT !.regen = regenerate,
                             !.ref = thoughts[t]]
       IN IF regenerate /\ idsToDelete # {}
          THEN /\ db' = Delete(db, idsToDelete)
               /\ calls' = Append(calls, [c EXCEPT !.pc = "deleteThoughts",
                                                   !.ids = idsToDelete])
               /\ UNCHANGED <<isGenerating, error, abortController>>
          ELSE /\ db' = db
               /\ calls' = Append(calls, [c EXCEPT !.pc = "generateThoughts",
                                                   !.ctl = NewCtl(calls),
                                                   !.context = Context(List(t))])
               /\ StartRequest(NewCtl(calls))
    /\ UNCHANGED <<threads, thoughts, heap, obj, threadCounts, selectedCounts, settings,
                   dbThreads, dbSettings, nextId, serial>>
    /\ UNCHANGED <<now, thrown>>
    /\ UNCHANGED store

\* After the regenerate deletion: the local array becomes a filtered copy, the store
\* gets an observable copy of it, and the request is issued.
generateBatch_deleteThoughts(i) ==
    /\ At(i, "generateBatch", "deleteThoughts")
    /\ LET c == calls[i]
           filtered == Remaining(Arr(c.ref), c.ids)
           rest == Without(i)
           used == Live([thoughts EXCEPT ![c.th] = NoRef], rest)
           stored == NewRef(used)
           local == NewRef(used \cup {stored})
           k == NewCtl(rest)
       IN /\ thoughts' = [thoughts EXCEPT ![c.th] = stored]
          /\ calls' = Append(rest, [c EXCEPT !.pc = "generateThoughts", !.ref = local,
                                             !.ctl = k, !.context = Context(filtered)])
          /\ heap' = Sweep([heap EXCEPT ![local] = filtered, ![stored] = filtered],
                           thoughts', calls')
          /\ threadCounts' = Put(threadCounts, c.th, Len(filtered))
          /\ StartRequest(k)
    /\ obj' = Collect(obj, heap', calls')
    /\ UNCHANGED <<threads, selectedCounts, settings, db, dbThreads, dbSettings,
                   nextId, serial>>
    /\ UNCHANGED <<now, thrown>>
    /\ UNCHANGED store

\* (the catch without this.isGenerating = false)
generateBatch_failedKeepsFlag(i) ==
    /\ At(i, "generateBatch", "generateThoughts")
    /\ error' = "Generation failed"
    /\ abortController' = 0
    /\ calls' = Without(i)
    /\ heap' = Sweep(heap, thoughts, calls')
    /\ obj' = Collect(obj, heap', calls')
    /\ UNCHANGED <<threads, thoughts, threadCounts, selectedCounts, settings, db,
                   dbThreads, dbSettings, nextId, serial, isGenerating, now, thrown>>
    /\ UNCHANGED store

\* generateThoughts rejects (HTTP error, no valid thoughts): catch, then finally.
generateBatch_failed(i) ==
    /\ At(i, "generateBatch", "generateThoughts")
    /\ error' = "Generation failed"
    /\ isGenerating' = FALSE
    /\ abortController' = 0
    /\ calls' = Without(i)
    /\ heap' = Sweep(heap, thoughts, calls')
    /\ obj' = Collect(obj, heap', calls')
    /\ UNCHANGED <<threads, thoughts, threadCounts, selectedCounts, settings, db,
                   dbThreads, dbSettings, nextId, serial>>
    /\ UNCHANGED <<now, thrown>>
    /\ UNCHANGED store

\* generateThoughts resolves with n candidate strings and a token usage.
generateBatch_generateThoughts(i, n, usage) ==
    /\ At(i, "generateBatch", "generateThoughts")
    /\ nextId + n - 1 <= LastFresh
    /\ LET c == calls[i]
           newIds == [k \in 1..n |-> nextId + k - 1]
           newThoughts == [id \in Range(newIds) |->
                             Candidate(c.th, Arr(c.ref), id - nextId)]
       IN /\ obj' = [id \in DOMAIN obj \cup Range(newIds) |->
                       IF id \in Range(newIds) THEN newThoughts[id] ELSE obj[id]]
          /\ db' = [id \in DOMAIN db \cup Range(newIds) |->
                       IF id \in Range(newIds) THEN newThoughts[id] ELSE db[id]]
          /\ calls' = Requeue(i, [c EXCEPT !.pc = "saveThoughts", !.new = newIds,
                                           !.usage = usage, !.context = <<>>])
    /\ nextId' = nextId + n
    /\ UNCHANGED <<threads, thoughts, heap, threadCounts, selectedCounts, isGenerating,
                   error, abortController, settings, dbThreads, dbSettings, serial>>
    /\ UNCHANGED <<now, thrown>>
    /\ UNCHANGED store

\* The thread object generateBatch found at its start: the element of this.threads, or
\* the object deleteThread has removed from this.threads since.
Captured(c) == IF c.th \in DOMAIN threads THEN threads[c.th] ELSE c.thread

generateBatch_saveThoughts(i) ==
    /\ At(i, "generateBatch", "saveThoughts")
    /\ LET c == calls[i]
           thread == [Captured(c) EXCEPT
                        !.stats.tokensIn = @ + c.usage.tokensIn,
                        !.stats.tokensOut = @ + c.usage.tokensOut,
                        !.updatedAt = now]
       IN /\ threads' = IF c.th \in DOMAIN threads
                        THEN [threads EXCEPT ![c.th] = thread] ELSE threads
          /\ dbThreads' = Put(dbThreads, c.th, thread)
          /\ calls' = Requeue(i, [c EXCEPT !.pc = "saveThread",
                                           !.thread = IF c.th \in DOMAIN threads
                                                      THEN @ ELSE thread])
    /\ UNCHANGED <<thoughts, heap, obj, threadCounts, selectedCounts, isGenerating, error,
                   abortController, settings, db, dbSettings, nextId, serial>>
    /\ UNCHANGED <<now, thrown>>
    /\ UNCHANGED store

\* generateThoughts resolves, and the saveThoughts that follows will reject: nothing
\* is written.
generateBatch_generateThoughtsFailing(i, n, usage) ==
    /\ At(i, "generateBatch", "generateThoughts")
    /\ nextId + n - 1 <= LastFresh
    /\ LET c == calls[i]
           newIds == [k \in 1..n |-> nextId + k - 1]
           newThoughts == [id \in Range(newIds) |->
                             Candidate(c.th, Arr(c.ref), id - nextId)]
       IN /\ obj' = [id \in DOMAIN obj \cup Range(newIds) |->
                       IF id \in Range(newIds) THEN newThoughts[id] ELSE obj[id]]
          /\ calls' = Requeue(i, [c EXCEPT !.pc = "saveThoughts", !.new = newIds,
                                           !.usage = usage, !.context = <<>>,
                                           !.failed = TRUE])
    /\ nextId' = nextId + n
    /\ UNCHANGED <<threads, thoughts, heap, threadCounts, selectedCounts, isGenerating,
                   error, abortController, settings, db, dbThreads, dbSettings, serial,
                   now, thrown, store>>

\* saveThoughts returns, and the saveThread that follows will reject: the thread is
\* changed in memory only.
generateBatch_saveThoughtsFailing(i) ==
    /\ At(i, "generateBatch", "saveThoughts")
    /\ LET c == calls[i]
       IN /\ threads' = [threads EXCEPT
                           ![c.th].stats.tokensIn = @ + c.usage.tokensIn,
                           ![c.th].stats.tokensOut = @ + c.usage.tokensOut,
                           ![c.th].updatedAt = now]
          /\ calls' = Requeue(i, [c EXCEPT !.pc = "saveThread", !.failed = TRUE])
    /\ UNCHANGED <<thoughts, heap, obj, threadCounts, selectedCounts, isGenerating, error,
                   abortController, settings, db, dbThreads, dbSettings, nextId, serial,
                   now, thrown, store>>

\* (the catch without this.isGenerating = false)
generateBatch_writeFailedKeepsFlag(i) ==
    /\ calls[i].op = "generateBatch" /\ calls[i].pc \in {"saveThoughts", "saveThread"}
    /\ calls[i].failed /\ Ready(i)
    /\ error' = "write failed"
    /\ abortController' = 0
    /\ calls' = Without(i)
    /\ heap' = Sweep(heap, thoughts, calls')
    /\ obj' = Collect(obj, heap', calls')
    /\ UNCHANGED <<threads, thoughts, threadCounts, selectedCounts, settings, db,
                   dbThreads, dbSettings, nextId, serial, isGenerating, now, thrown,
                   store>>

\* saveThoughts or saveThread rejects inside the try: catch, then finally.
generateBatch_writeFailed(i) ==
    /\ calls[i].op = "generateBatch" /\ calls[i].pc \in {"saveThoughts", "saveThread"}
    /\ calls[i].failed /\ Ready(i)
    /\ error' = "write failed"
    /\ isGenerating' = FALSE
    /\ abortController' = 0
    /\ calls' = Without(i)
    /\ heap' = Sweep(heap, thoughts, calls')
    /\ obj' = Collect(obj, heap', calls')
    /\ UNCHANGED <<threads, thoughts, threadCounts, selectedCounts, settings, db,
                   dbThreads, dbSettings, nextId, serial, now, thrown, store>>

\* settingsStore.addTokenUsage
generateBatch_saveThread(i) ==
    /\ At(i, "generateBatch", "saveThread")
    /\ LET c == calls[i]
       IN /\ settings' = [settings EXCEPT
                            !.totalTokensIn = @ + c.usage.tokensIn,
                            !.totalTokensOut = @ + c.usage.tokensOut]
          /\ dbSettings' = settings'
          /\ calls' = Requeue(i, [c EXCEPT !.pc = "saveSettings"])
    /\ UNCHANGED <<threads, thoughts, heap, obj, threadCounts, selectedCounts,
                   isGenerating, error, abortController, db, dbThreads, nextId, serial>>
    /\ UNCHANGED <<now, thrown>>
    /\ UNCHANGED store

\* currentThoughts.push(...newThoughts), then finally
generateBatch_saveSettings(i) ==
    /\ At(i, "generateBatch", "saveSettings")
    /\ LET c == calls[i]
           t == c.th
           rest == Without(i)
           r == IF thoughts[t] = NoRef THEN NewRef(Live(thoughts, rest)) ELSE thoughts[t]
           pushed == List(t) \o c.new
       IN /\ thoughts' = [thoughts EXCEPT ![t] = r]
          /\ calls' = rest
          /\ heap' = Sweep([heap EXCEPT ![r] = pushed], thoughts', calls')
          /\ threadCounts' = Put(threadCounts, t, Len(pushed))
    /\ isGenerating' = FALSE
    /\ abortController' = 0
    /\ obj' = Collect(obj, heap', calls')
    /\ UNCHANGED <<threads, selectedCounts, error, settings, db, dbThreads,
                   dbSettings, nextId, serial>>
    /\ UNCHANGED <<now, thrown>>
    /\ UNCHANGED store

----------------------------------------------------------------------------
\* createThread, deleteThread

\* A Gateway call issued with ok = FALSE fails: its transaction aborts, nothing is
\* written, and the promise the operation awaits rejects.
createThread(ok) ==
    /\ CanCall
    /\ nextId <= LastFresh
    /\ Cardinality(DOMAIN threads) < MaxThreads
    /\ LET thread == NewThread(now, FALSE, NoPrompt)
           c == [Begin("createThread", nextId) EXCEPT !.pc = "saveThread",
                             !.thread = thread, !.failed = ~ok]
       IN /\ dbThreads' = IF ok THEN Put(dbThreads, nextId, thread) ELSE dbThreads
          /\ calls' = Append(calls, c)
    /\ nextId' = nextId + 1
    /\ UNCHANGED <<threads, thoughts, heap, obj, threadCounts, selectedCounts,
                   isGenerating, error, abortController, settings, db, dbSettings,
                   serial, now, thrown>>
    /\ UNCHANGED store

createThread_saveThread(i) ==
    /\ At(i, "createThread", "saveThread")
    /\ LET c == calls[i]
           rest == Without(i)
           r == NewRef(Live(thoughts, rest))
       IN /\ threads' = Put(threads, c.th, c.thread)
          /\ thoughts' = [thoughts EXCEPT ![c.th] = r]
          /\ calls' = rest
          /\ heap' = Sweep([heap EXCEPT ![r] = <<>>], thoughts', calls')
          /\ threadCounts' = Put(threadCounts, c.th, 0)
          /\ selectedCounts' = Put(selectedCounts, c.th, 0)
    /\ obj' = Collect(obj, heap', calls')
    /\ UNCHANGED <<isGenerating, error, abortController, settings, db, dbThreads,
                   dbSettings, nextId, serial, now, thrown>>
    /\ UNCHANGED store

\* (the thread record only, its thoughts left in the object store)
ThoughtsOfNone(d, t) == {}
\* tx.objectStore('thoughts').index('by-thread').getAllKeys(id)
ThoughtsOf(d, t) == {x \in DOMAIN d : d[x].th = t}

\* One transaction over both object stores.
deleteThread(t, ok) ==
    /\ CanCall
    /\ LET c == [Begin("deleteThread", t) EXCEPT !.pc = "dbDeleteThread", !.failed = ~ok]
       IN calls' = Append(calls, c)
    /\ dbThreads' = IF ok THEN Delete(dbThreads, {t}) ELSE dbThreads
    /\ db' = IF ok THEN Delete(db, ThoughtsOf(db, t)) ELSE db
    /\ UNCHANGED <<threads, thoughts, heap, obj, threadCounts, selectedCounts,
                   isGenerating, error, abortController, settings, dbSettings, nextId,
                   serial, now, thrown>>
    /\ UNCHANGED store

\* The calls in flight on thread t keep the thread object they found, which is no
\* longer an element of this.threads.
Detached(cs, t) ==
    [j \in 1..Len(cs) |-> IF cs[j].th = t /\ t \in DOMAIN threads
                          THEN [cs[j] EXCEPT !.thread = threads[t]] ELSE cs[j]]

deleteThread_dbDeleteThread(i) ==
    /\ At(i, "deleteThread", "dbDeleteThread")
    /\ LET c == calls[i]
       IN /\ threads' = Delete(threads, {c.th})
          /\ thoughts' = [thoughts EXCEPT ![c.th] = NoRef]
          /\ threadCounts' = Delete(threadCounts, {c.th})
          /\ selectedCounts' = Delete(selectedCounts, {c.th})
    /\ calls' = Detached(Without(i), calls[i].th)
    /\ heap' = Sweep(heap, thoughts', calls')
    /\ obj' = Collect(obj, heap', calls')
    /\ UNCHANGED <<isGenerating, error, abortController, settings, db, dbThreads,
                   dbSettings, nextId, serial, now, thrown>>
    /\ UNCHANGED store

\* addUserThought when saveThought fails: the thought is built, nothing is written.
addUserThought_failing(t) ==
    /\ CanCall
    /\ nextId <= LastFresh
    /\ LET thought == NewThought(t, "user", TRUE, MaxOrder(List(t)) + 1, 0)
           c == [Begin("addUserThought", t) EXCEPT !.pc = "saveThought", !.id = nextId,
                             !.failed = TRUE]
       IN /\ obj' = Put(obj, nextId, thought)
          /\ calls' = Append(calls, c)
    /\ nextId' = nextId + 1
    /\ UNCHANGED <<threads, thoughts, heap, threadCounts, selectedCounts, isGenerating,
                   error, abortController, settings, db, dbThreads, dbSettings, serial,
                   now, thrown>>
    /\ UNCHANGED store

\* The operations that await the Gateway outside any try block.
Uncaught == {"createThread", "deleteThread", "addUserThought", "importData",
             "toggleSelected"}

\* The awaited Gateway call rejects and no catch encloses the await: the method stops
\* there and the promise it returned rejects.
rejected(i) ==
    /\ calls[i].failed
    /\ calls[i].op \in Uncaught
    /\ Ready(i)
    /\ thrown' = "write failed"
    /\ calls' = Without(i)
    /\ heap' = Sweep(heap, thoughts, calls')
    /\ obj' = Collect(obj, heap', calls')
    /\ UNCHANGED <<threads, thoughts, threadCounts, selectedCounts, isGenerating, error,
                   abortController, settings, db, dbThreads, dbSettings, nextId, serial,
                   now>>
    /\ UNCHANGED store

----------------------------------------------------------------------------
\* importData

\* A thought of an import file without an order field.
NoOrder == -1
FileThought(author, text, order, starred, edited) ==
    [author |-> author, text |-> text, order |-> order, starred |-> starred,
     edited |-> edited]
\* A thread of an import file; updatedAt 0 stands for a missing or zero field
\* (createdAt and threadPrompt left out).
FileThread(id, title, updatedAt, pinned, items) ==
    [id |-> id, title |-> title, updatedAt |-> updatedAt, pinned |-> pinned,
     thoughts |-> items]

\* The documents handed to importData: data.threads is missing, is an object that is
\* not an array, or is an array of threads (as exportData writes them, or edited by hand).
Documents ==
    {[kind |-> "missing", items |-> <<>>],
     [kind |-> "object", items |-> <<>>],
     EmptyDocument,
     [kind |-> "array",
      items |-> <<FileThread(1, "Title", 1, TRUE, <<FileThought("user", 11, 0, TRUE, FALSE)>>)>>],
     [kind |-> "array",
      items |-> <<FileThread(1, "Untitled", 0, FALSE, <<FileThought("ai", 12, 1, FALSE, TRUE),
                                            FileThought("user", 13, 0, FALSE, FALSE)>>)>>],
     [kind |-> "array",
      items |-> <<FileThread(2, "Untitled", 0, FALSE, <<>>),
                  FileThread(1, "Title", 2, FALSE, <<FileThought("user", 14, NoOrder, FALSE, FALSE)>>)>>]}

\* !data.threads || !Array.isArray(data.threads)
IsInvalid(d) == d.kind # "array"

\* uuid() calls of one import
RECURSIVE IdsNeeded(_)
IdsNeeded(items) ==
    IF items = <<>> THEN 0
    ELSE 1 + Len(items[1].thoughts) + IdsNeeded(SubSeq(items, 2, Len(items)))

\* The Thread built from threadData.
ImportedThread(f) ==
    [NewThread(IF f.updatedAt = 0 THEN now ELSE f.updatedAt, f.pinned, NoPrompt)
       EXCEPT !.title = f.title]

\* (the thought as the file has it, selected only if a user wrote it)
ImportedThoughtAsAuthored(t, f, i) ==
    [NewThought(t, f.author, f.author = "user", IF f.order = NoOrder THEN i ELSE f.order,
                f.text)
       EXCEPT !.starred = f.starred, !.edited = f.edited]
\* The Thought built from the i-th (from 0) thought of threadData.
ImportedThought(t, f, i) ==
    [NewThought(t, f.author, TRUE, IF f.order = NoOrder THEN i ELSE f.order, f.text)
       EXCEPT !.starred = f.starred, !.edited = f.edited]

\* (the failure put into the error field, nothing thrown)
importData_invalidRecorded(d) ==
    /\ CanCall
    /\ IsInvalid(d)
    /\ error' = "Invalid import data"
    /\ UNCHANGED <<threads, thoughts, heap, obj, threadCounts, selectedCounts,
                   isGenerating, abortController, settings, db, dbThreads,
                   dbSettings, calls, nextId, serial, now, thrown>>
    /\ UNCHANGED store

\* throw new Error('Invalid import data')
importData_invalid(d) ==
    /\ CanCall
    /\ IsInvalid(d)
    /\ thrown' = "Invalid import data"
    /\ UNCHANGED <<threads, thoughts, heap, obj, threadCounts, selectedCounts,
                   isGenerating, error, abortController, settings, db, dbThreads,
                   dbSettings, calls, nextId, serial, now>>
    /\ UNCHANGED store

\* Up to the first saveThread; a document with no thread returns at once.
importData(d, ok) ==
    /\ CanCall
    /\ ~IsInvalid(d)
    /\ nextId + IdsNeeded(d.items) - 1 <= LastFresh
    /\ Cardinality(DOMAIN threads) + Len(d.items) <= MaxThreads
    /\ IF d.items = <<>>
       THEN UNCHANGED <<dbThreads, calls, nextId>>
       ELSE LET thread == ImportedThread(d.items[1])
                c == [Begin("importData", nextId) EXCEPT !.pc = "saveThread", !.doc = d,
                                  !.k = 1, !.thread = thread, !.failed = ~ok]
            IN /\ dbThreads' = IF ok THEN Put(dbThreads, nextId, thread) ELSE dbThreads
               /\ calls' = Append(calls, c)
               /\ nextId' = nextId + 1
    /\ UNCHANGED <<threads, thoughts, heap, obj, threadCounts, selectedCounts,
                   isGenerating, error, abortController, settings, db, dbSettings,
                   serial, now, thrown>>
    /\ UNCHANGED store

\* runInAction of one imported thread with the thoughts ids, then the next turn of the
\* loop up to its saveThread (nid: the next id uuid() hands out), or the return.
importData_install(i, ids, nid) ==
    LET c == calls[i]
        rest == Without(i)
        r == NewRef(Live(thoughts, rest))
        more == c.k < Len(c.doc.items)
    IN /\ threads' = Put(threads, c.th, c.thread)
       /\ thoughts' = [thoughts EXCEPT ![c.th] = r]
       /\ threadCounts' = Put(threadCounts, c.th, Len(ids))
       /\ selectedCounts' = Put(selectedCounts, c.th, Len(ids))
       /\ IF more
          THEN LET next == ImportedThread(c.doc.items[c.k + 1])
               IN /\ calls' = Append(rest, [c EXCEPT !.pc = "saveThread", !.k = c.k + 1,
                                                     !.th = nid, !.thread = next,
                                                     !.new = <<>>])
                  /\ dbThreads' = Put(dbThreads, nid, next)
                  /\ nextId' = nid + 1
          ELSE /\ calls' = rest
               /\ dbThreads' = dbThreads
               /\ nextId' = nid
       /\ heap' = Sweep([heap EXCEPT ![r] = ids], thoughts', calls')

importData_saveThread(i) ==
    /\ At(i, "importData", "saveThread")
    /\ LET c == calls[i]
           items == c.doc.items[c.k].thoughts
           ids == [j \in 1..Len(items) |-> nextId + j - 1]
           made == [id \in Range(ids) |-> ImportedThought(c.th, items[id - nextId + 1],
                                                          id - nextId)]
           all == [id \in DOMAIN obj \cup Range(ids) |->
                     IF id \in Range(ids) THEN made[id] ELSE obj[id]]
       IN IF ids # <<>>
          THEN /\ db' = [id \in DOMAIN db \cup Range(ids) |->
                           IF id \in Range(ids) THEN made[id] ELSE db[id]]
               /\ calls' = Requeue(i, [c EXCEPT !.pc = "saveThoughts", !.new = ids])
               /\ nextId' = nextId + Len(ids)
               /\ obj' = Collect(all, heap, calls')
               /\ UNCHANGED <<threads, thoughts, heap, threadCounts, selectedCounts,
                              dbThreads>>
          ELSE /\ importData_install(i, ids, nextId)
               /\ obj' = Collect(obj, heap', calls')
               /\ db' = db
    /\ UNCHANGED <<isGenerating, error, abortController, settings, dbSettings, serial,
                   now, thrown>>
    /\ UNCHANGED store

importData_saveThoughts(i) ==
    /\ At(i, "importData", "saveThoughts")
    /\ importData_install(i, calls[i].new, nextId)
    /\ obj' = Collect(obj, heap', calls')
    /\ UNCHANGED <<isGenerating, error, abortController, settings, db, dbSettings,
                   serial, now, thrown>>
    /\ UNCHANGED store

----------------------------------------------------------------------------
\* togglePinned, setThreadPrompt, setGenerationCount; the clock

\* Time passes between two steps.
Tick ==
    /\ now < MaxClock
    /\ now' = now + 1
    /\ UNCHANGED <<threads, thoughts, heap, obj, threadCounts, selectedCounts,
                   isGenerating, error, abortController, settings, db, dbThreads,
                   dbSettings, calls, nextId, serial, thrown>>
    /\ UNCHANGED store

\* The prompts and generation counts the thread settings can hold.
Prompts == {NoPrompt, 1}
GenerationCounts == {1, DefaultGenerationCount}

\* thread.updatedAt = Date.now()
Updated(thread) == [thread EXCEPT !.updatedAt = now]

\* The thread is changed in place and saved.
SaveChanged(op, t, thread) ==
    /\ CanCall
    /\ threads' = [threads EXCEPT ![t] = thread]
    /\ dbThreads' = Put(dbThreads, t, thread)
    /\ calls' = Append(calls, [Begin(op, t) EXCEPT !.pc = "saveThread"])
    /\ UNCHANGED <<thoughts, heap, obj, threadCounts, selectedCounts, isGenerating,
                   error, abortController, settings, db, dbSettings, nextId, serial,
                   now, thrown>>
    /\ UNCHANGED store

togglePinned(t) ==
    SaveChanged("togglePinned", t, Updated([threads[t] EXCEPT !.pinned = ~@]))

setThreadPrompt(t, prompt) ==
    SaveChanged("setThreadPrompt", t, Updated([threads[t] EXCEPT !.threadPrompt = prompt]))

setGenerationCount(t, count) ==
    SaveChanged("setGenerationCount", t,
                Updated([threads[t] EXCEPT !.generationCount = count]))

\* saveThread returns to togglePinned, setThreadPrompt or setGenerationCount.
thread_saveThread(i) ==
    /\ calls[i].op \in {"togglePinned", "setThreadPrompt", "setGenerationCount"}
    /\ At(i, calls[i].op, "saveThread")
    /\ calls' = Without(i)
    /\ UNCHANGED <<threads, thoughts, heap, obj, threadCounts, selectedCounts,
                   isGenerating, error, abortController, settings, db, dbThreads,
                   dbSettings, nextId, serial, now, thrown>>
    /\ UNCHANGED store

----------------------------------------------------------------------------
\* editThought and loadThoughts

\* A text is a number; the same text with whitespace around it is the number plus Pad.
Pad == 100
\* (the text as it was typed)
TrimNothing(text) == text
\* newText.trim()
Trim(text) == IF text >= Pad THEN text - Pad ELSE text

\* The texts the edit form submits: a text, and the same text with whitespace around it.
NewTexts == {20, 20 + Pad}

\* thoughts?.find(t => t.id === thoughtId) finds nothing.
editThought_missing(t, id) ==
    /\ CanCall
    /\ id \notin Range(List(t))
    /\ UNCHANGED vars

editThought(t, id, newText) ==
    /\ CanCall
    /\ id \in Range(List(t))
    /\ LET thought == [obj[id] EXCEPT !.text = Trim(newText), !.edited = TRUE]
       IN /\ obj' = [obj EXCEPT ![id] = thought]
          /\ db' = Put(db, id, thought)
    /\ calls' = Append(calls, [Begin("editThought", t) EXCEPT !.pc = "saveThought",
                                                             !.id = id,
                                                             !.newText = newText])
    /\ UNCHANGED <<threads, thoughts, heap, threadCounts, selectedCounts, isGenerating,
                   error, abortController, settings, dbThreads, dbSettings, nextId,
                   serial, now, thrown, store>>

editThought_saveThought(i) ==
    /\ At(i, "editThought", "saveThought")
    /\ calls' = Without(i)
    /\ heap' = Sweep(heap, thoughts, calls')
    /\ obj' = Collect(obj, heap', calls')
    /\ UNCHANGED <<threads, thoughts, threadCounts, selectedCounts, isGenerating, error,
                   abortController, settings, db, dbThreads, dbSettings, nextId, serial,
                   now, thrown, store>>

\* thoughts.sort((a, b) => a.order - b.order) of the records the index 'by-thread'
\* returns, which come in the order of their ids.
RECURSIVE ByOrder(_)
ByOrder(ids) ==
    IF ids = {} THEN <<>>
    ELSE LET x == CHOOSE x \in ids :
                    \A y \in ids : \/ db[x].order < db[y].order
                                   \/ db[x].order = db[y].order /\ x <= y
         IN <<x>> \o ByOrder(ids \ {x})

loadThoughts(t) ==
    /\ CanCall
    /\ calls' = Append(calls, [Begin("loadThoughts", t) EXCEPT !.pc = "getThoughtsByThread"])
    /\ UNCHANGED <<threads, thoughts, heap, obj, threadCounts, selectedCounts,
                   isGenerating, error, abortController, settings, db, dbThreads,
                   dbSettings, nextId, serial, now, thrown, store>>

\* getThoughtsByThread returns: a new array of the persisted thoughts replaces the array
\* of the thread. (Used in serial runs only: no other call holds the objects replaced.)
loadThoughts_getThoughtsByThread(i) ==
    /\ At(i, "loadThoughts", "getThoughtsByThread")
    /\ LET t == calls[i].th
           ids == {x \in DOMAIN db : db[x].th = t}
           r == NewRef(Live(thoughts, calls))
       IN /\ thoughts' = [thoughts EXCEPT ![t] = r]
          /\ calls' = Without(i)
          /\ heap' = Sweep([heap EXCEPT ![r] = ByOrder(ids)], thoughts', calls')
          /\ obj' = Collect([x \in DOMAIN obj \cup ids |->
                               IF x \in ids THEN db[x] ELSE obj[x]], heap', calls')
          /\ threadCounts' = Put(threadCounts, t, Cardinality(ids))
          /\ selectedCounts' = Put(selectedCounts, t,
                                   Cardinality({x \in ids : db[x].selected}))
    /\ UNCHANGED <<threads, isGenerating, error, abortController, settings, db,
                   dbThreads, dbSettings, nextId, serial, now, thrown, store>>

\* allThoughts.filter(t => t.starred).sort((a, b) => b.createdAt - a.createdAt): the
\* starred records of every thread, newest first (ids are handed out in the order of
\* creation).
RECURSIVE getStarredThoughts(_)
getStarredThoughts(ids) ==
    IF ids = {} THEN <<>>
    ELSE LET x == CHOOSE x \in ids : \A y \in ids : y <= x
         IN <<x>> \o getStarredThoughts(ids \ {x})

\* thoughts?.find(t => t.id === thoughtId) finds nothing.
toggleStarred_missing(t, id) ==
    /\ CanCall
    /\ id \notin Range(List(t))
    /\ UNCHANGED vars

toggleStarred(t, id) ==
    /\ CanCall
    /\ id \in Range(List(t))
    /\ obj' = [obj EXCEPT ![id].starred = ~@]
    /\ db' = Put(db, id, obj'[id])
    /\ calls' = Append(calls, [Begin("toggleStarred", t) EXCEPT !.pc = "saveThought",
                                                               !.id = id])
    /\ UNCHANGED <<threads, thoughts, heap, threadCounts, selectedCounts, isGenerating,
                   error, abortController, settings, dbThreads, dbSettings, nextId,
                   serial, now, thrown, store>>

\* saveThought returns: await this.loadStarredThoughts()
toggleStarred_saveThought(i) ==
    /\ At(i, "toggleStarred", "saveThought")
    /\ calls' = [calls EXCEPT ![i].pc = "getStarredThoughts"]
    /\ UNCHANGED <<threads, thoughts, heap, obj, threadCounts, selectedCounts,
                   isGenerating, error, abortController, settings, db, dbThreads,
                   dbSettings, nextId, serial, now, thrown, store>>

\* getStarredThoughts returns: the cache is replaced by what persistence holds now.
loadStarredThoughts_getStarredThoughts(i) ==
    /\ At(i, "toggleStarred", "getStarredThoughts")
    /\ store' = [store EXCEPT
                   !.starredThoughts = getStarredThoughts({x \in DOMAIN db : db[x].starred})]
    /\ calls' = Without(i)
    /\ heap' = Sweep(heap, thoughts, calls')
    /\ obj' = Collect(obj, heap', calls')
    /\ UNCHANGED <<threads, thoughts, threadCounts, selectedCounts, isGenerating, error,
                   abortController, settings, db, dbThreads, dbSettings, nextId, serial,
                   now, thrown>>

\* The title the user types into the header: titleInput.trim() || 'Untitled'
UserTitles == {"Untitled", "Mine"}

\* handleTitleSave of ThreadView: the title is written to the thread of the store and
\* the thread is saved; nothing follows the save.
handleTitleSave(t, newTitle) ==
    /\ t \in DOMAIN threads
    /\ threads' = [threads EXCEPT ![t].title = newTitle]
    /\ dbThreads' = Put(dbThreads, t, threads'[t])
    /\ UNCHANGED <<thoughts, heap, obj, threadCounts, selectedCounts, isGenerating,
                   error, abortController, settings, db, dbSettings, calls, nextId,
                   serial, now, thrown, store>>

----------------------------------------------------------------------------
\* loadThreads

\* A persisted thread written before generationCount existed has no such field.
NoCount == 0

\* { ...thread, generationCount: thread.generationCount ?? 3 }
Normalized(thread) ==
    [thread EXCEPT !.generationCount = IF @ = NoCount THEN DefaultGenerationCount ELSE @]

\* db.countFromIndex('thoughts', 'by-thread', threadId)
ThoughtCountByThread(t) == Cardinality({x \in DOMAIN db : db[x].th = t})
\* The number of persisted thoughts of the thread that are selected.
SelectedThoughtCountByThread(t) ==
    Cardinality({x \in DOMAIN db : db[x].th = t /\ db[x].selected})

\* ok: the read of the threads will succeed.
loadThreads(ok) ==
    /\ CanCall
    /\ store' = [store EXCEPT !.isLoading = TRUE]
    /\ calls' = Append(calls, [Begin("loadThreads", 0) EXCEPT !.pc = "getAllThreads",
                                                              !.failed = ~ok])
    /\ UNCHANGED <<threads, thoughts, heap, obj, threadCounts, selectedCounts,
                   isGenerating, error, abortController, settings, db, dbThreads,
                   dbSettings, nextId, serial, now, thrown>>

\* getAllThreads returns: the normalized threads replace this.threads and every
\* callback of the map runs up to its count lookups, of which those of the threads in
\* bad will reject.
loadThreads_getAllThreads(i, bad) ==
    /\ At(i, "loadThreads", "getAllThreads")
    /\ bad \subseteq DOMAIN dbThreads
    /\ LET normalizedThreads == [t \in DOMAIN dbThreads |-> Normalized(dbThreads[t])]
       IN /\ threads' = normalizedThreads
          /\ calls' = IF DOMAIN dbThreads = {} THEN Without(i)
                      ELSE Requeue(i, [calls[i] EXCEPT !.pc = "counts",
                                                       !.ids = DOMAIN dbThreads,
                                                       !.bad = bad,
                                                       !.loaded = normalizedThreads])
    /\ store' = [store EXCEPT !.isLoading = FALSE]
    /\ UNCHANGED <<thoughts, heap, obj, threadCounts, selectedCounts, isGenerating,
                   error, abortController, settings, db, dbThreads, dbSettings, nextId,
                   serial, now, thrown>>

\* (a catch that records the error and leaves the flag as it is)
loadThreads_getAllThreadsFailedLoading(i) ==
    /\ calls[i].op = "loadThreads" /\ calls[i].pc = "getAllThreads" /\ Ready(i)
    /\ calls[i].failed
    /\ error' = "read failed"
    /\ calls' = Without(i)
    /\ UNCHANGED <<threads, thoughts, heap, obj, threadCounts, selectedCounts,
                   isGenerating, abortController, settings, db, dbThreads, dbSettings,
                   nextId, serial, now, thrown, store>>

\* getAllThreads rejects: the catch records the message.
loadThreads_getAllThreadsFailed(i) ==
    /\ calls[i].op = "loadThreads" /\ calls[i].pc = "getAllThreads" /\ Ready(i)
    /\ calls[i].failed
    /\ error' = "read failed"
    /\ store' = [store EXCEPT !.isLoading = FALSE]
    /\ calls' = Without(i)
    /\ UNCHANGED <<threads, thoughts, heap, obj, threadCounts, selectedCounts,
                   isGenerating, abortController, settings, db, dbThreads, dbSettings,
                   nextId, serial, now, thrown>>

\* The two count lookups of thread t return: the counts are cached, and the thread is
\* saved when the thread the callback holds, an element of normalizedThreads, has no
\* generationCount.
loadThreads_counts(i, t) ==
    /\ calls[i].op = "loadThreads" /\ calls[i].pc = "counts" /\ Ready(i)
    /\ t \in calls[i].ids \ calls[i].bad
    /\ LET c == calls[i]
           thread == c.loaded[t]
           save == thread.generationCount = NoCount
       IN /\ threadCounts' = Put(threadCounts, t, ThoughtCountByThread(t))
          /\ selectedCounts' = Put(selectedCounts, t, SelectedThoughtCountByThread(t))
          /\ dbThreads' = IF save THEN Put(dbThreads, t, thread) ELSE dbThreads
          /\ calls' = Requeue(i, [c EXCEPT !.ids = @ \ {t},
                                           !.pc = IF save THEN "saveThread" ELSE @])
    /\ UNCHANGED <<threads, thoughts, heap, obj, isGenerating, error, abortController,
                   settings, db, dbSettings, nextId, serial, now, thrown, store>>

\* A lookup of the call has rejected already, and the catch has run.
Caught(c) == c.bad \ c.ids # {}

\* A count lookup of thread t rejects: Promise.all rejects with the first rejection and
\* the catch records it; the callbacks of the other threads go on, and the call stays
\* in calls until they have ended.
loadThreads_countsFailed(i, t) ==
    /\ calls[i].op = "loadThreads" /\ calls[i].pc = "counts" /\ Ready(i)
    /\ t \in calls[i].ids \cap calls[i].bad
    /\ error' = IF Caught(calls[i]) THEN error ELSE "read failed"
    /\ store' = IF Caught(calls[i]) THEN store ELSE [store EXCEPT !.isLoading = FALSE]
    /\ calls' = Requeue(i, [calls[i] EXCEPT !.ids = @ \ {t}])
    /\ UNCHANGED <<threads, thoughts, heap, obj, threadCounts, selectedCounts,
                   isGenerating, abortController, settings, db, dbThreads, dbSettings,
                   nextId, serial, now, thrown>>

\* Every callback has ended.
loadThreads_settled(i) ==
    /\ calls[i].op = "loadThreads" /\ calls[i].pc \in {"counts", "saveThread"} /\ Ready(i)
    /\ calls[i].ids = {}
    /\ calls' = Without(i)
    /\ UNCHANGED <<threads, thoughts, heap, obj, threadCounts, selectedCounts,
                   isGenerating, error, abortController, settings, db, dbThreads,
                   dbSettings, nextId, serial, now, thrown, store>>

----------------------------------------------------------------------------
\* generateThreadTitle

\* The titles generateTitle returns: the trimmed answer, or 'Untitled' for an empty one.
Titles == {"Untitled", "Title"}

\* (the guards without the test of the selected thoughts)
TitleWantedAnySelection(t) ==
    /\ t \in DOMAIN threads
    /\ threads[t].title = "Untitled"
    /\ isConfigured
\* The guards of generateThreadTitle all pass.
TitleWanted(t) ==
    /\ t \in DOMAIN threads
    /\ threads[t].title = "Untitled"
    /\ isConfigured
    /\ SelectSeq(List(t), LAMBDA x : obj[x].selected) # <<>>

\* One of the guards returns.
generateThreadTitle_skipped(t) ==
    /\ CanCall
    /\ ~TitleWanted(t)
    /\ UNCHANGED vars

generateThreadTitle(t) ==
    /\ CanCall
    /\ TitleWanted(t)
    /\ calls' = Append(calls, [Begin("generateThreadTitle", t) EXCEPT
                                  !.pc = "generateTitle", !.context = Context(List(t))])
    /\ UNCHANGED <<threads, thoughts, heap, obj, threadCounts, selectedCounts,
                   isGenerating, error, abortController, settings, db, dbThreads,
                   dbSettings, nextId, serial, now, thrown, store>>

\* generateTitle resolves: the title is set and the thread saved (ok: the save succeeds).
generateThreadTitle_generateTitle(i, title, ok) ==
    /\ At(i, "generateThreadTitle", "generateTitle")
    /\ LET c == calls[i]
       IN /\ threads' = [threads EXCEPT ![c.th].title = title]
          /\ dbThreads' = IF ok /\ c.th \in DOMAIN threads
                          THEN Put(dbThreads, c.th, threads'[c.th]) ELSE dbThreads
          /\ calls' = Requeue(i, [c EXCEPT !.pc = "saveThread", !.failed = ~ok,
                                           !.context = <<>>])
    /\ UNCHANGED <<thoughts, heap, obj, threadCounts, selectedCounts, isGenerating,
                   error, abortController, settings, db, dbSettings, nextId, serial,
                   now, thrown, store>>

\* (the catch surfacing the failure as generateBatch does)
generateThreadTitle_failedSurfaced(i) ==
    /\ At(i, "generateThreadTitle", "generateTitle")
    /\ error' = "Failed to generate title"
    /\ calls' = Without(i)
    /\ UNCHANGED <<threads, thoughts, heap, obj, threadCounts, selectedCounts,
                   isGenerating, abortController, settings, db, dbThreads,
                   dbSettings, nextId, serial, now, thrown, store>>

\* generateTitle rejects: the catch logs the error.
generateThreadTitle_failed(i) ==
    /\ At(i, "generateThreadTitle", "generateTitle")
    /\ calls' = Without(i)
    /\ UNCHANGED <<threads, thoughts, heap, obj, threadCounts, selectedCounts,
                   isGenerating, error, abortController, settings, db, dbThreads,
                   dbSettings, nextId, serial, now, thrown, store>>

\* saveThread returns or rejects: the method returns, or the catch logs the error.
generateThreadTitle_saveThread(i) ==
    /\ calls[i].op = "generateThreadTitle"
    /\ calls[i].pc = "saveThread"
    /\ Ready(i)
    /\ calls' = Without(i)
    /\ UNCHANGED <<threads, thoughts, heap, obj, threadCounts, selectedCounts,
                   isGenerating, error, abortController, settings, db, dbThreads,
                   dbSettings, nextId, serial, now, thrown, store>>

----------------------------------------------------------------------------
\* SettingsStore: setApiKey, setModel (loadModels, which fills availableModels, left out)

\* The keys and model names the settings form can hold; "" is an empty field.
ApiKeys == {"", "key"}
Models == {"", "model"}

setApiKey(apiKey) ==
    /\ CanCall
    /\ settings' = [settings EXCEPT !.apiKey = apiKey]
    /\ dbSettings' = settings'
    /\ calls' = Append(calls, [Begin("setApiKey", 0) EXCEPT !.pc = "saveSettings"])
    /\ UNCHANGED <<threads, thoughts, heap, obj, threadCounts, selectedCounts,
                   isGenerating, error, abortController, db, dbThreads, nextId, serial,
                   now, thrown>>
    /\ UNCHANGED store

setModel(model) ==
    /\ CanCall
    /\ settings' = [settings EXCEPT !.model = model]
    /\ dbSettings' = settings'
    /\ calls' = Append(calls, [Begin("setModel", 0) EXCEPT !.pc = "saveSettings"])
    /\ UNCHANGED <<threads, thoughts, heap, obj, threadCounts, selectedCounts,
                   isGenerating, error, abortController, db, dbThreads, nextId, serial,
                   now, thrown>>
    /\ UNCHANGED store

persist_saveSettings(i) ==
    /\ calls[i].op \in {"setApiKey", "setModel"}
    /\ At(i, calls[i].op, "saveSettings")
    /\ calls' = Without(i)
    /\ UNCHANGED <<threads, thoughts, heap, obj, threadCounts, selectedCounts,
                   isGenerating, error, abortController, settings, db, dbThreads,
                   dbSettings, nextId, serial, now, thrown>>
    /\ UNCHANGED store

----------------------------------------------------------------------------
\* Specifications.  Each one fixes which operations the user interface issues and
\* whether it awaits one before issuing the next.

\* Every operation, each awaited before the next is issued (cancelGeneration then
\* finds no request to cancel).
NextSerial ==
    \/ \E t \in ThreadIds : addUserThought(t)
    \/ \E i \in 1..Len(calls) : addUserThought_saveThought(i)
    \/ \E i \in 1..Len(calls) : addUserThought_saveThread(i)
    \/ \E t \in ThreadIds, id \in DOMAIN obj : toggleSelected(t, id)
    \/ \E i \in 1..Len(calls) : toggleSelected_saveThought(i)
    \/ \E i \in 1..Len(calls) : toggleSelected_deleteThoughts(i)
    \/ \E t \in ThreadIds, id \in DOMAIN obj : deleteThought(t, id)
    \/ \E i \in 1..Len(calls) : deleteThought_deleteThought(i)
    \/ \E t \in ThreadIds : pruneUnselected(t)
    \/ \E i \in 1..Len(calls) : pruneUnselected_deleteThoughts(i)
    \/ \E t \in ThreadIds : generateBatch_unconfigured(t)
    \/ \E t \in ThreadIds, regenerate \in BOOLEAN : generateBatch(t, regenerate)
    \/ \E i \in 1..Len(calls) : generateBatch_deleteThoughts(i)
    \/ \E i \in 1..Len(calls) : generateBatch_failed(i)
    \/ \E i \in 1..Len(calls), n \in BatchSizes, usage \in Usages :
            generateBatch_generateThoughts(i, n, usage)
    \/ \E i \in 1..Len(calls) : generateBatch_saveThoughts(i)
    \/ \E i \in 1..Len(calls) : generateBatch_saveThread(i)
    \/ \E i \in 1..Len(calls) : generateBatch_saveSettings(i)

SpecSerial == InitSerial /\ [][NextSerial]_vars

\* Only the operations that insert thoughts: addUserThought and generateBatch.
NextInsert ==
    \/ \E t \in ThreadIds : addUserThought(t)
    \/ \E i \in 1..Len(calls) : addUserThought_saveThought(i)
    \/ \E i \in 1..Len(calls) : addUserThought_saveThread(i)
    \/ \E t \in ThreadIds : generateBatch_unconfigured(t)
    \/ \E t \in ThreadIds, regenerate \in BOOLEAN : generateBatch(t, regenerate)
    \/ \E i \in 1..Len(calls) : generateBatch_deleteThoughts(i)
    \/ \E i \in 1..Len(calls) : generateBatch_failed(i)
    \/ \E i \in 1..Len(calls), n \in BatchSizes, usage \in Usages :
            generateBatch_generateThoughts(i, n, usage)
    \/ \E i \in 1..Len(calls) : generateBatch_saveThoughts(i)
    \/ \E i \in 1..Len(calls) : generateBatch_saveThread(i)
    \/ \E i \in 1..Len(calls) : generateBatch_saveSettings(i)

\* ... each awaited before the next is issued,
SpecInsert == InitInsert /\ [][NextInsert]_vars
\* ... and overlapping at the awaits.
SpecInsertOverlap == Init /\ [][NextInsert]_vars

\* generateBatch and cancelGeneration, overlapping at the awaits.
NextGenerate ==
    \/ cancelGeneration
    \/ \E t \in ThreadIds : generateBatch_unconfigured(t)
    \/ \E t \in ThreadIds, regenerate \in BOOLEAN : generateBatch(t, regenerate)
    \/ \E i \in 1..Len(calls) : generateBatch_deleteThoughts(i)
    \/ \E i \in 1..Len(calls) : generateBatch_failed(i)
    \/ \E i \in 1..Len(calls), n \in BatchSizes, usage \in Usages :
            generateBatch_generateThoughts(i, n, usage)
    \/ \E i \in 1..Len(calls) : generateBatch_saveThoughts(i)
    \/ \E i \in 1..Len(calls) : generateBatch_saveThread(i)
    \/ \E i \in 1..Len(calls) : generateBatch_saveSettings(i)

SpecGenerate == Init /\ [][NextGenerate]_vars

\* addUserThought, toggleSelected and generateBatch, overlapping at the awaits.
NextSelect ==
    \/ \E t \in ThreadIds : addUserThought(t)
    \/ \E i \in 1..Len(calls) : addUserThought_saveThought(i)
    \/ \E i \in 1..Len(calls) : addUserThought_saveThread(i)
    \/ \E t \in ThreadIds, id \in DOMAIN obj : toggleSelected(t, id)
    \/ \E i \in 1..Len(calls) : toggleSelected_saveThought(i)
    \/ \E i \in 1..Len(calls) : toggleSelected_deleteThoughts(i)
    \/ \E t \in ThreadIds : generateBatch_unconfigured(t)
    \/ \E t \in ThreadIds, regenerate \in BOOLEAN : generateBatch(t, regenerate)
    \/ \E i \in 1..Len(calls) : generateBatch_deleteThoughts(i)
    \/ \E i \in 1..Len(calls) : generateBatch_failed(i)
    \/ \E i \in 1..Len(calls), n \in BatchSizes, usage \in Usages :
            generateBatch_generateThoughts(i, n, usage)
    \/ \E i \in 1..Len(calls) : generateBatch_saveThoughts(i)
    \/ \E i \in 1..Len(calls) : generateBatch_saveThread(i)
    \/ \E i \in 1..Len(calls) : generateBatch_saveSettings(i)

SpecSelect == InitSelect /\ [][NextSelect]_vars

\* A store of several threads: threads are created, imported and deleted and user
\* thoughts added, each operation awaited before the next is issued; a Gateway write
\* can fail.
NextThreads ==
    \/ \E ok \in BOOLEAN : createThread(ok)
    \/ \E i \in 1..Len(calls) : createThread_saveThread(i)
    \/ \E t \in DOMAIN threads, ok \in BOOLEAN : deleteThread(t, ok)
    \/ \E i \in 1..Len(calls) : deleteThread_dbDeleteThread(i)
    \/ \E d \in Documents : importData_invalid(d)
    \/ \E d \in Documents, ok \in BOOLEAN : importData(d, ok)
    \/ \E i \in 1..Len(calls) : importData_saveThread(i)
    \/ \E i \in 1..Len(calls) : importData_saveThoughts(i)
    \/ \E i \in 1..Len(calls) : rejected(i)
    \/ \E t \in DOMAIN threads : addUserThought(t)
    \/ \E t \in DOMAIN threads : addUserThought_failing(t)
    \/ \E i \in 1..Len(calls) : addUserThought_saveThought(i)
    \/ \E i \in 1..Len(calls) : addUserThought_saveThread(i)

InitThreads == InitWith(<<User, Cand, Cand>>, TRUE, TRUE, MaxNewStore)

SpecThreads == InitThreads /\ [][NextThreads]_vars

\* Two threads side by side: a second thread is created, thoughts are added and
\* selected and batches generated in either, each operation awaited before the next.
NextContext ==
    \/ createThread(TRUE)
    \/ \E i \in 1..Len(calls) : createThread_saveThread(i)
    \/ \E t \in DOMAIN threads : addUserThought(t)
    \/ \E i \in 1..Len(calls) : addUserThought_saveThought(i)
    \/ \E i \in 1..Len(calls) : addUserThought_saveThread(i)
    \/ \E t \in DOMAIN threads, id \in DOMAIN obj : toggleSelected(t, id)
    \/ \E i \in 1..Len(calls) : toggleSelected_saveThought(i)
    \/ \E i \in 1..Len(calls) : toggleSelected_deleteThoughts(i)
    \/ \E t \in DOMAIN threads, regenerate \in BOOLEAN : generateBatch(t, regenerate)
    \/ \E i \in 1..Len(calls) : generateBatch_deleteThoughts(i)
    \/ \E i \in 1..Len(calls) : generateBatch_failed(i)
    \/ \E i \in 1..Len(calls), n \in BatchSizes, usage \in Usages :
            generateBatch_generateThoughts(i, n, usage)
    \/ \E i \in 1..Len(calls) : generateBatch_saveThoughts(i)
    \/ \E i \in 1..Len(calls) : generateBatch_saveThread(i)
    \/ \E i \in 1..Len(calls) : generateBatch_saveSettings(i)

InitContext == InitWith(<<User, Cand, Cand>>, TRUE, TRUE, MaxNewContext)

SpecContext == InitContext /\ [][NextContext]_vars

\* The settings form is edited between generations, each operation awaited before the
\* next is issued.
NextSettings ==
    \/ \E apiKey \in ApiKeys : setApiKey(apiKey)
    \/ \E model \in Models : setModel(model)
    \/ \E i \in 1..Len(calls) : persist_saveSettings(i)
    \/ \E t \in DOMAIN threads : generateBatch_unconfigured(t)
    \/ \E t \in DOMAIN threads, regenerate \in BOOLEAN : generateBatch(t, regenerate)
    \/ \E i \in 1..Len(calls) : generateBatch_deleteThoughts(i)
    \/ \E i \in 1..Len(calls) : generateBatch_failed(i)
    \/ \E i \in 1..Len(calls), n \in BatchSizes, usage \in Usages :
            generateBatch_generateThoughts(i, n, usage)
    \/ \E i \in 1..Len(calls) : generateBatch_saveThoughts(i)
    \/ \E i \in 1..Len(calls) : generateBatch_saveThread(i)
    \/ \E i \in 1..Len(calls) : generateBatch_saveSettings(i)

SpecSettings == InitInsert /\ [][NextSettings]_vars


\* The operations on one thread that change it or its selection, with time passing,
\* each operation awaited before the next is issued.
NextTouch ==
    \/ Tick
    \/ \E t \in DOMAIN threads : togglePinned(t)
    \/ \E t \in DOMAIN threads, prompt \in Prompts : setThreadPrompt(t, prompt)
    \/ \E t \in DOMAIN threads, count \in GenerationCounts : setGenerationCount(t, count)
    \/ \E i \in 1..Len(calls) : thread_saveThread(i)
    \/ \E t \in DOMAIN threads : addUserThought(t)
    \/ \E i \in 1..Len(calls) : addUserThought_saveThought(i)
    \/ \E i \in 1..Len(calls) : addUserThought_saveThread(i)
    \/ \E t \in DOMAIN threads, id \in DOMAIN obj : toggleSelected(t, id)
    \/ \E i \in 1..Len(calls) : toggleSelected_saveThought(i)
    \/ \E i \in 1..Len(calls) : toggleSelected_deleteThoughts(i)
    \/ \E t \in DOMAIN threads, id \in DOMAIN obj : deleteThought(t, id)
    \/ \E i \in 1..Len(calls) : deleteThought_deleteThought(i)
    \/ \E t \in DOMAIN threads, regenerate \in BOOLEAN : generateBatch(t, regenerate)
    \/ \E i \in 1..Len(calls) : generateBatch_deleteThoughts(i)
    \/ \E i \in 1..Len(calls) : generateBatch_failed(i)
    \/ \E i \in 1..Len(calls), n \in BatchSizes, usage \in Usages :
            generateBatch_generateThoughts(i, n, usage)
    \/ \E i \in 1..Len(calls) : generateBatch_saveThoughts(i)
    \/ \E i \in 1..Len(calls) : generateBatch_saveThread(i)
    \/ \E i \in 1..Len(calls) : generateBatch_saveSettings(i)

\* Thoughts are starred and unstarred, selected, deselected and deleted, each operation
\* awaited before the next is issued.
NextStarred ==
    \/ \E t \in ThreadIds, id \in DOMAIN obj : toggleStarred_missing(t, id)
    \/ \E t \in ThreadIds, id \in DOMAIN obj : toggleStarred(t, id)
    \/ \E i \in 1..Len(calls) : toggleStarred_saveThought(i)
    \/ \E i \in 1..Len(calls) : loadStarredThoughts_getStarredThoughts(i)
    \/ \E t \in ThreadIds, id \in DOMAIN obj : toggleSelected(t, id)
    \/ \E i \in 1..Len(calls) : toggleSelected_saveThought(i)
    \/ \E i \in 1..Len(calls) : toggleSelected_deleteThoughts(i)
    \/ \E t \in ThreadIds, id \in DOMAIN obj : deleteThought(t, id)
    \/ \E i \in 1..Len(calls) : deleteThought_deleteThought(i)

InitTouch == InitWith(<<User, Cand, Cand>>, TRUE, TRUE, MaxNewSerial)

SpecTouch == InitTouch /\ [][NextTouch]_vars

SpecStarred == InitTouch /\ [][NextStarred]_vars

\* Thoughts are selected and deselected, each call awaited before the next is issued,
\* and a Gateway write of toggleSelected can reject.
NextToggleFailing ==
    \/ \E t \in ThreadIds, id \in DOMAIN obj : toggleSelected(t, id)
    \/ \E t \in ThreadIds, id \in DOMAIN obj : toggleSelected_failing(t, id)
    \/ \E i \in 1..Len(calls) : toggleSelected_saveThought(i)
    \/ \E i \in 1..Len(calls) : toggleSelected_saveThoughtFailing(i)
    \/ \E i \in 1..Len(calls) : toggleSelected_deleteThoughts(i)
    \/ \E i \in 1..Len(calls) : rejected(i)

SpecToggleFailing == InitTouch /\ [][NextToggleFailing]_vars


\* Titles are generated while the settings form is edited and thoughts are selected and
\* deselected, each operation awaited before the next is issued.
NextTitle ==
    \/ \E t \in AllThreadIds : generateThreadTitle_skipped(t)
    \/ \E t \in AllThreadIds : generateThreadTitle(t)
    \/ \E i \in 1..Len(calls), title \in Titles, ok \in BOOLEAN :
            generateThreadTitle_generateTitle(i, title, ok)
    \/ \E i \in 1..Len(calls) : generateThreadTitle_failed(i)
    \/ \E i \in 1..Len(calls) : generateThreadTitle_saveThread(i)
    \/ \E apiKey \in ApiKeys : setApiKey(apiKey)
    \/ \E model \in Models : setModel(model)
    \/ \E i \in 1..Len(calls) : persist_saveSettings(i)
    \/ \E t \in DOMAIN threads, id \in DOMAIN obj : toggleSelected(t, id)
    \/ \E i \in 1..Len(calls) : toggleSelected_saveThought(i)
    \/ \E i \in 1..Len(calls) : toggleSelected_deleteThoughts(i)

SpecTitle == InitInsert /\ [][NextTitle]_vars

\* Generations overlap and are cancelled, and a write of the success path can reject.
NextGenerateFailing ==
    \/ NextGenerate
    \/ \E i \in 1..Len(calls), n \in BatchSizes, usage \in Usages :
            generateBatch_generateThoughtsFailing(i, n, usage)
    \/ \E i \in 1..Len(calls) : generateBatch_saveThoughtsFailing(i)
    \/ \E i \in 1..Len(calls) : generateBatch_writeFailed(i)

\* A Gateway call of a generateBatch in flight returns or rejects.
Returns ==
    \E i \in 1..Len(calls) :
        \/ generateBatch_deleteThoughts(i)
        \/ generateBatch_failed(i)
        \/ \E n \in BatchSizes, usage \in Usages :
              \/ generateBatch_generateThoughts(i, n, usage)
              \/ generateBatch_generateThoughtsFailing(i, n, usage)
        \/ generateBatch_saveThoughts(i)
        \/ generateBatch_saveThoughtsFailing(i)
        \/ generateBatch_writeFailed(i)
        \/ generateBatch_saveThread(i)
        \/ generateBatch_saveSettings(i)

\* Every Gateway call that was issued returns.
SpecGenerateFair == Init /\ [][NextGenerateFailing]_vars /\ WF_vars(Returns)

\* A thread is deleted while generations of it are in flight.
NextOrphan ==
    \/ NextGenerate
    \/ \E t \in DOMAIN threads : deleteThread(t, TRUE)
    \/ \E i \in 1..Len(calls) : deleteThread_dbDeleteThread(i)

SpecOrphan == Init /\ [][NextOrphan]_vars

\* Titles are generated, by calls that may overlap, while the user renames the thread.
NextRename ==
    \/ \E t \in DOMAIN threads : generateThreadTitle(t)
    \/ \E i \in 1..Len(calls), title \in Titles, ok \in BOOLEAN :
            generateThreadTitle_generateTitle(i, title, ok)
    \/ \E i \in 1..Len(calls) : generateThreadTitle_failed(i)
    \/ \E i \in 1..Len(calls) : generateThreadTitle_saveThread(i)
    \/ \E t \in DOMAIN threads, newTitle \in UserTitles : handleTitleSave(t, newTitle)

SpecRename == Init /\ [][NextRename]_vars

\* Every operation on the thoughts of a loaded thread, loadThoughts included, each
\* awaited before the next is issued.
NextCounts ==
    \/ NextSerial
    \/ \E t \in ThreadIds : loadThoughts(t)
    \/ \E i \in 1..Len(calls) : loadThoughts_getThoughtsByThread(i)

SpecCounts == InitSerial /\ [][NextCounts]_vars

\* Thoughts are edited, added, selected, deleted and loaded again, each operation
\* awaited before the next is issued.
NextEdit ==
    \/ \E t \in ThreadIds, id \in DOMAIN obj : editThought_missing(t, id)
    \/ \E t \in ThreadIds, id \in DOMAIN obj, newText \in NewTexts :
            editThought(t, id, newText)
    \/ \E i \in 1..Len(calls) : editThought_saveThought(i)
    \/ \E t \in ThreadIds : loadThoughts(t)
    \/ \E i \in 1..Len(calls) : loadThoughts_getThoughtsByThread(i)
    \/ \E t \in ThreadIds : addUserThought(t)
    \/ \E i \in 1..Len(calls) : addUserThought_saveThought(i)
    \/ \E i \in 1..Len(calls) : addUserThought_saveThread(i)
    \/ \E t \in ThreadIds, id \in DOMAIN obj : toggleSelected(t, id)
    \/ \E i \in 1..Len(calls) : toggleSelected_saveThought(i)
    \/ \E i \in 1..Len(calls) : toggleSelected_deleteThoughts(i)
    \/ \E t \in ThreadIds, id \in DOMAIN obj : deleteThought(t, id)
    \/ \E i \in 1..Len(calls) : deleteThought_deleteThought(i)

SpecEdit == InitTouch /\ [][NextEdit]_vars

\* The page opens: memory is empty and persistence holds up to two threads, with or
\* without a generationCount, the first with its thoughts.
LoadedThreadIds == {{}, {1}, {1, FirstFresh}}
InitLoad ==
    /\ threads = <<>>
    /\ thoughts = [t \in AllThreadIds |-> NoRef]
    /\ heap = [r \in Refs |-> <<>>]
    /\ obj = <<>>
    /\ threadCounts = <<>>
    /\ selectedCounts = <<>>
    /\ isGenerating = FALSE
    /\ error = "none"
    /\ abortController = 0
    /\ settings = [apiKey |-> "key", model |-> "model", totalTokensIn |-> 0,
                   totalTokensOut |-> 0]
    /\ \E l \in InitialLists :
         db = [i \in 1..Len(l) |-> NewThought(1, l[i].author, l[i].selected, i - 1, i)]
    /\ \E ids \in LoadedThreadIds :
         dbThreads \in [ids -> {[NewThread(0, FALSE, NoPrompt) EXCEPT !.generationCount = n] :
                                  n \in GenerationCounts \cup {NoCount}}]
    /\ dbSettings = settings
    /\ calls = <<>>
    /\ nextId = LastFresh + 1
    /\ serial = TRUE
    /\ now = 0
    /\ thrown = "none"
    /\ store = [isLoading |-> FALSE, starredThoughts |-> <<>>]

\* The threads are loaded, and loaded again, between changes of the thread settings.
NextLoad ==
    \/ \E ok \in BOOLEAN : loadThreads(ok)
    \/ \E i \in 1..Len(calls), bad \in SUBSET AllThreadIds : loadThreads_getAllThreads(i, bad)
    \/ \E i \in 1..Len(calls) : loadThreads_getAllThreadsFailed(i)
    \/ \E i \in 1..Len(calls), t \in AllThreadIds : loadThreads_counts(i, t)
    \/ \E i \in 1..Len(calls), t \in AllThreadIds : loadThreads_countsFailed(i, t)
    \/ \E i \in 1..Len(calls) : loadThreads_settled(i)
    \/ \E t \in DOMAIN threads : togglePinned(t)
    \/ \E t \in DOMAIN threads, count \in GenerationCounts : setGenerationCount(t, count)
    \/ \E i \in 1..Len(calls) : thread_saveThread(i)

SpecLoad == InitLoad /\ [][NextLoad]_vars

\* Every read the database was asked for returns.
SpecLoadFair ==
    /\ SpecLoad
    /\ WF_vars(\E i \in 1..Len(calls) :
                  \/ \E bad \in SUBSET AllThreadIds : loadThreads_getAllThreads(i, bad)
                  \/ loadThreads_getAllThreadsFailed(i))
    /\ WF_vars(\E i \in 1..Len(calls), t \in AllThreadIds :
                  loadThreads_counts(i, t) \/ loadThreads_countsFailed(i, t))
    /\ WF_vars(\E i \in 1..Len(calls) : loadThreads_settled(i))

----------------------------------------------------------------------------
\* Properties

SelectedIn(s) == {x \in Range(s) : obj[x].selected}
IsCandidate(x) == obj[x].author = "ai" /\ ~obj[x].selected
Gen(i) == calls[i].op = "generateBatch"

\* The one operation in flight of a serial run returns with this step.
Completes(op) == /\ Len(calls) = 1 /\ calls[1].op = op /\ calls' = <<>>

\* C1: toggleSelected that selects an ai thought T of order k and runs alone leaves the
\* list it found minus exactly the other ai thoughts that were unselected with order < k,
\* and T selected.
C1_CascadeRemovesExactly ==
    [][(Completes("toggleSelected") /\ ~calls[1].was /\ obj[calls[1].id].author = "ai")
        => LET c == calls[1]
               T == c.id
               Skipped(x) == /\ x # T
                             /\ obj[x].author = "ai"
                             /\ x \notin c.sel0
                             /\ obj[x].order < obj[T].order
           IN /\ \A t \in {c.th} : List(t)' = SelectSeq(c.list0, LAMBDA x : ~Skipped(x))
              /\ obj'[T].selected
              /\ \A x \in Range(c.list0) \ {T} : ~Skipped(x) =>
                    obj'[x].selected = (x \in c.sel0)]_vars

\* A selection whose cascade is deleting a skipped candidate while a selected user
\* thought and the selected thought stay.
C1_Witness ==
    /\ Len(calls) = 1
    /\ calls[1].op = "toggleSelected"
    /\ calls[1].pc = "deleteThoughts"
    /\ calls[1].ids # {}
    /\ \E x \in calls[1].sel0 : obj[x].author = "user"

\* C2: between operations of a serial run, selectedCounts[threadId] is the number of
\* selected thoughts in the thread's list.
C2_SelectedCountExact ==
    calls = <<>> =>
        \A t \in ThreadIds : selectedCounts[t] = Cardinality(SelectedIn(List(t)))

\* A generated thought has been selected, and some thought of the list is not.
C2_Witness ==
    /\ calls = <<>>
    /\ \E x \in Range(List(1)) :
          x >= FirstFresh /\ obj[x].author = "ai" /\ obj[x].selected
    /\ \E x \in Range(List(1)) : ~obj[x].selected
    /\ selectedCounts[1] >= 2

\* C3: no two thoughts of a thread's list have the same order, also when the
\* operations overlap.
C3_OrdersDistinct ==
    \A t \in ThreadIds : \A i, j \in DOMAIN List(t) :
        i # j => obj[List(t)[i]].order # obj[List(t)[j]].order

\* C4 as stated: a thought inserted later (ids are handed out in insertion order) has
\* an order greater than every thought inserted before it, deleted ones included.
C4_AboveEveryEarlier ==
    \A x, y \in DOMAIN obj : x < y => obj[x].order < obj[y].order

\* C4 amended: in a serial run of addUserThought and generateBatch the orders along the
\* list increase strictly, and every thought a step inserts has an order above every
\* thought the list held before the step.
C4_AboveEveryPresent ==
    /\ [](\A t \in ThreadIds : \A i, j \in DOMAIN List(t) :
             i < j => obj[List(t)[i]].order < obj[List(t)[j]].order)
    /\ [][\A t \in ThreadIds : \A x \in Range(List(t)') \ Range(List(t)) :
             \A y \in Range(List(t)) : obj'[y].order < obj'[x].order]_vars

\* A regenerated candidate sits in the list with an order a deleted candidate had.
C4_Witness ==
    /\ calls = <<>>
    /\ \E y \in Range(List(1)), x \in DOMAIN obj \ Range(List(1)) :
          y >= FirstFresh /\ obj[y].order <= obj[x].order

\* C5: at most one generateBatch is in flight.
C5_OneGeneration ==
    Cardinality({i \in 1..Len(calls) : Gen(i)}) <= 1

\* C6: cancelGeneration leaves isGenerating false, and no later step of the cancelled
\* generation adds a thought to the list or to persistence or sets the error.
C6_CancelledAddsNothing ==
    [][/\ (abortController # 0 /\ abortController' = 0 /\ calls' # calls /\
             Len(calls') = Len(calls)) => ~isGenerating'
       /\ (Len(calls) = 1 /\ Gen(1) /\ calls[1].aborted /\ calls' # calls /\
             Len(calls') <= 1)
            => /\ DOMAIN db' \subseteq DOMAIN db
               /\ \A t \in ThreadIds : Range(List(t)') \subseteq Range(List(t))
               /\ error' = error]_vars

\* C7: when a cancelled generation returns while the generation holding the current
\* controller is in flight, isGenerating stays true.
C7_FlagClearedOnce ==
    [][\A i \in 1..Len(calls) :
         (/\ Gen(i) /\ calls[i].aborted
          /\ calls' = Without(i)
          /\ isGenerating
          /\ \E j \in 1..Len(calls) :
                j # i /\ Gen(j) /\ abortController # 0
                      /\ calls[j].ctl = abortController)
         => isGenerating']_vars

\* C8: pruneUnselected run alone is issued only over more than 5 unselected ai thoughts
\* and removes from the list and from persistence exactly those that are not among the
\* 5 of highest order; everything else, selection included, stays.
C8_PruneKeepsNewestFive ==
    [][Completes("pruneUnselected")
        => LET c == calls[1]
               u0 == {x \in Range(c.list0) : obj[x].author = "ai" /\ x \notin c.sel0}
               Old(x) == /\ x \in u0
                         /\ Cardinality({y \in u0 : obj[y].order > obj[x].order}) >= PruneKeep
           IN \A t \in {c.th} :
              /\ Cardinality(u0) > PruneKeep
              /\ List(t)' = SelectSeq(c.list0, LAMBDA x : ~Old(x))
              /\ DOMAIN db' = {x \in c.db0 : ~Old(x)}
              /\ Cardinality({x \in Range(List(t)') : obj'[x].author = "ai"
                                                   /\ ~obj'[x].selected}) = PruneKeep
              /\ \A x \in Range(List(t)') :
                    /\ obj'[x] = obj[x]
                    /\ db'[x] = obj[x]
                    /\ obj'[x].selected = (x \in c.sel0)
              /\ selectedCounts' = selectedCounts]_vars

\* A prune in flight over a list that also holds a selected thought.
C8_Witness ==
    /\ Len(calls) = 1
    /\ calls[1].op = "pruneUnselected"
    /\ calls[1].ids # {}
    /\ calls[1].sel0 # {}

\* C9: no step removes a user thought from a thread's list or from persistence (the
\* runs hold no deleteThought and no deleteThread).
C9_UserThoughtsStay ==
    [][\A x \in DOMAIN obj : obj[x].author = "user" =>
          /\ \A t \in ThreadIds : x \in Range(List(t)) => x \in Range(List(t)')
          /\ x \in DOMAIN db => x \in DOMAIN db']_vars

\* C10: while the request of generateBatch(threadId, true) is pending in a serial run,
\* neither the list nor persistence holds an unselected ai thought; when the call
\* returns after a success the unselected ai thoughts of the list are the new batch, and
\* the selected thoughts and selectedCounts are those found at the call.
C10_RegenerateReplacesCandidates ==
    /\ [](\A i \in 1..Len(calls) :
            (Gen(i) /\ calls[i].regen /\ calls[i].pc = "generateThoughts")
            => /\ \A x \in Range(List(calls[i].th)) : ~IsCandidate(x)
               /\ \A x \in DOMAIN db : ~(db[x].author = "ai" /\ ~db[x].selected))
    /\ [][(Completes("generateBatch") /\ calls[1].regen /\ calls[1].new # <<>>)
            => LET c == calls[1]
               IN \A t \in {c.th} :
                  /\ {x \in Range(List(t)') : obj'[x].author = "ai"
                                              /\ ~obj'[x].selected} = Range(c.new)
                  /\ Range(c.new) \subseteq DOMAIN db'
                  /\ {x \in Range(List(t)') : obj'[x].selected} = c.sel0
                  /\ selectedCounts'[t] = c.sc0]_vars

\* A regenerating call that deleted candidates has its new batch saved.
C10_Witness ==
    /\ Len(calls) = 1
    /\ Gen(1)
    /\ calls[1].regen
    /\ calls[1].pc = "saveSettings"
    /\ \E x \in Range(calls[1].list0) : x \notin Range(List(1))
    /\ calls[1].sel0 # {}

\* The requests of generateBatch that are pending.
Requests(cs) == {i \in 1..Len(cs) : cs[i].op = "generateBatch" /\ cs[i].pc = "generateThoughts"}

\* This step issues the AI request of a generateBatch (the call is the last of calls').
IssuesRequest == Cardinality(Requests(calls')) > Cardinality(Requests(calls))

\* C11: at the step that issues the request of generateBatch(t), the thoughts handed to
\* the AI Gateway are exactly the selected thoughts of the list of thread t as that step
\* leaves it, each once, in ascending order; all of them are thoughts of t and selected.
C11_ContextIsSelection ==
    [][IssuesRequest =>
         \A t \in AllThreadIds :
            t = calls'[Len(calls')].th =>
               LET ctx == calls'[Len(calls')].context
               IN /\ Range(ctx) = {x \in Range(List(t)') : obj'[x].selected}
                  /\ Len(ctx) = Cardinality(Range(ctx))
                  /\ \A a, b \in 1..Len(ctx) : a < b => obj'[ctx[a]].order <= obj'[ctx[b]].order
                  /\ \A x \in Range(ctx) : obj'[x].th = t /\ obj'[x].selected]_vars

\* A request is pending for a thread that shows unselected candidates, while another
\* thread holds a selected thought.
C11_Witness ==
    /\ Requests(calls) # {}
    /\ \E i \in Requests(calls) :
          /\ calls[i].context # <<>>
          /\ \E x \in Range(List(calls[i].th)) : IsCandidate(x)
          /\ \E t \in DOMAIN threads \ {calls[i].th} : \E x \in Range(List(t)) : obj[x].selected

\* The in-memory thoughts and counters of the store.
Memory == <<thoughts, heap, obj, threadCounts, selectedCounts>>

\* C12: while apiKey or model is missing (and no generation is running), no step of a
\* run that edits the settings and calls generateBatch writes to the thoughts or threads
\* of persistence, issues an AI request, sets isGenerating or changes thoughts, counters
\* or token totals; and the step of such a state that starts no Gateway call, which is
\* the refused generateBatch, sets the error field to the configuration message.
C12_UnconfiguredDoesNothing ==
    [][(~isConfigured /\ ~isGenerating) =>
          /\ db' = db
          /\ dbThreads' = dbThreads
          /\ Requests(calls') = {}
          /\ \A i \in 1..Len(calls') : calls'[i].op # "generateBatch"
          /\ isGenerating' = FALSE
          /\ Memory' = Memory
          /\ threads' = threads
          /\ settings'.totalTokensIn = settings.totalTokensIn
          /\ settings'.totalTokensOut = settings.totalTokensOut
          /\ (calls = <<>> /\ calls' = <<>>)
                => error' = "Please configure API key and model in settings"]_vars

\* generateBatch was refused for a thread that shows candidates a regenerate would delete.
C12_Witness ==
    /\ ~isConfigured
    /\ error = "Please configure API key and model in settings"
    /\ calls = <<>>
    /\ \E t \in DOMAIN threads : \E x \in Range(List(t)) : IsCandidate(x) /\ x \in DOMAIN db

\* The token counts of thread t and of the settings.
Tokens(t) == <<threads[t].stats.tokensIn, threads[t].stats.tokensOut,
               settings.totalTokensIn, settings.totalTokensOut>>

\* C13: in a serial run, the step in which generateBatch returns while its request is
\* pending (the request rejected) leaves isGenerating false and the error field set to
\* the failure message; the list and persistence hold no thought that was not there at
\* the call, and the token counts of the thread (in memory and persisted) and of the
\* settings are those found at the call.
C13_FailureAddsNothing ==
    [][(Completes("generateBatch") /\ calls[1].pc = "generateThoughts") =>
          LET c == calls[1]
          IN \A t \in {c.th} :
                /\ isGenerating' = FALSE
                /\ error' = "Generation failed"
                /\ Range(List(t)') \subseteq Range(c.list0)
                /\ DOMAIN db' \subseteq c.db0
                /\ Tokens(t)' = c.tok0
                /\ dbThreads'[t].stats = threads'[t].stats
                /\ dbSettings'.totalTokensIn = c.tok0[3]
                /\ dbSettings'.totalTokensOut = c.tok0[4]]_vars

\* A generation has failed and returned, on a thread that holds thoughts.
C13_Witness ==
    /\ calls = <<>>
    /\ error = "Generation failed"
    /\ ~isGenerating
    /\ \E t \in DOMAIN threads : List(t) # <<>>

\* C14: in a serial run, the step in which a successful generateBatch pushes its batch of
\* n thoughts appends them to the end of the thread's list in the order the AI Gateway
\* returned them; the k-th is persisted and is an unselected, unstarred, unedited ai
\* thought of the thread with order max + k, max being the highest order in the list
\* before the push (-1 for an empty list); selectedCounts stays as found at the call and
\* threadCounts grows by n.
C14_BatchAppended ==
    [][(Completes("generateBatch") /\ calls[1].pc = "saveSettings") =>
          LET c == calls[1]
              n == Len(c.new)
          IN \A t \in {c.th} :
                /\ n >= 1
                /\ List(t)' = List(t) \o c.new
                /\ \A k \in 1..n :
                      /\ obj'[c.new[k]] = [th |-> t, author |-> "ai", selected |-> FALSE,
                                           order |-> MaxOrder(List(t)) + k, text |-> k,
                                           starred |-> FALSE, edited |-> FALSE]
                      /\ c.new[k] \in DOMAIN db'
                      /\ db'[c.new[k]] = obj'[c.new[k]]
                /\ selectedCounts'[t] = selectedCounts[t]
                /\ selectedCounts'[t] = c.sc0
                /\ threadCounts'[t] = threadCounts[t] + n]_vars

\* A batch of two candidates has been pushed behind a thought of an earlier order.
C14_Witness ==
    /\ calls = <<>>
    /\ \E t \in DOMAIN threads :
          /\ Len(List(t)) >= 3
          /\ \E k \in 2..(Len(List(t)) - 1) :
                /\ obj[List(t)[k]].text = 1 /\ obj[List(t)[k + 1]].text = 2
                /\ obj[List(t)[k]].author = "ai" /\ obj[List(t)[k + 1]].author = "ai"
                /\ obj[List(t)[k]].order = obj[List(t)[k - 1]].order + 1
                /\ settings.totalTokensIn > 0

\* C15: a generation that was cancelled changes neither the token stats of a thread nor
\* the token totals of the settings: no step taken while every generateBatch in flight
\* has been cancelled changes them, in memory or in persistence.
C15_CancelledCountsNoTokens ==
    [][(calls # <<>> /\ \A i \in 1..Len(calls) : Gen(i) /\ calls[i].aborted) =>
          /\ \A t \in DOMAIN threads : threads'[t].stats = threads[t].stats
          /\ \A t \in DOMAIN dbThreads : dbThreads'[t].stats = dbThreads[t].stats
          /\ settings'.totalTokensIn = settings.totalTokensIn
          /\ settings'.totalTokensOut = settings.totalTokensOut
          /\ dbSettings' = dbSettings]_vars

\* C16: when a Gateway call of a store operation fails, the step in which the operation
\* returns records the failure in the error field and rejects no promise.
C16_FailureCaptured ==
    [][((\E i \in 1..Len(calls) : calls[i].failed) /\ Len(calls') < Len(calls)) =>
          /\ error' # "none"
          /\ thrown' = thrown]_vars

\* The one operation in flight of a serial run was issued by this step.
Calls(op) == /\ calls = <<>> /\ Len(calls') = 1 /\ calls'[1].op = op

\* C17: in a serial run, the transaction deleteThread(t) issues removes from persistence
\* thread t and the thoughts of t and nothing else; the step in which deleteThread
\* returns leaves persistence without t and without a thought of t, evicts t from
\* threads, thoughts, threadCounts and selectedCounts and leaves every other thread and
\* its list, thoughts and counters as they were; when the transaction fails, persistence
\* and memory stay as they were.
C17_DeleteThreadEvicts ==
    /\ [][(Calls("deleteThread") /\ ~calls'[1].failed) =>
             \A t \in AllThreadIds :
                t = calls'[1].th =>
                   /\ DOMAIN dbThreads' = DOMAIN dbThreads \ {t}
                   /\ \A u \in DOMAIN dbThreads' : dbThreads'[u] = dbThreads[u]
                   /\ DOMAIN db' = {x \in DOMAIN db : db[x].th # t}
                   /\ \A x \in DOMAIN db' : db'[x] = db[x]]_vars
    /\ [][(Completes("deleteThread") /\ ~calls[1].failed) =>
             \A t \in {calls[1].th} :
                /\ t \notin DOMAIN dbThreads'
                /\ \A x \in DOMAIN db' : db'[x].th # t
                /\ t \notin DOMAIN threads'
                /\ thoughts'[t] = NoRef
                /\ t \notin DOMAIN threadCounts'
                /\ t \notin DOMAIN selectedCounts'
                /\ DOMAIN threads' = DOMAIN threads \ {t}
                /\ \A u \in DOMAIN threads' :
                      /\ threads'[u] = threads[u]
                      /\ List(u)' = List(u)
                      /\ \A x \in Range(List(u)) : obj'[x] = obj[x]
                      /\ threadCounts'[u] = threadCounts[u]
                      /\ selectedCounts'[u] = selectedCounts[u]
                /\ db' = db
                /\ dbThreads' = dbThreads]_vars
    /\ [][((Calls("deleteThread") /\ calls'[1].failed)
           \/ (Completes("deleteThread") /\ calls[1].failed)) =>
             /\ threads' = threads
             /\ Memory' = Memory
             /\ db' = db
             /\ dbThreads' = dbThreads]_vars

\* The loaded thread, which held persisted candidates, has been deleted, next to another
\* thread that holds thoughts.
C17_Witness ==
    /\ calls = <<>>
    /\ \E x \in DOMAIN obj : /\ obj[x].author = "ai"
                             /\ obj[x].th \notin DOMAIN threads
                             /\ obj[x].th \notin DOMAIN dbThreads
                             /\ x \notin DOMAIN db
    /\ \E u \in DOMAIN threads : List(u) # <<>>

\* The operations that change a thread or the selection of its thoughts.
Touching == {"togglePinned", "setThreadPrompt", "setGenerationCount", "addUserThought",
             "toggleSelected", "deleteThought", "generateBatch"}

\* C18: in a serial run, when an operation that changed thread t or the selection of its
\* thoughts returns (generateBatch after a success), updatedAt of t is no earlier than
\* the time of the call and persistence holds the thread as memory does.
C18_UpdatedAtRefreshed ==
    [][(/\ Len(calls) = 1
        /\ calls' = <<>>
        /\ calls[1].op \in Touching
        /\ calls[1].op = "generateBatch" => calls[1].pc = "saveSettings"
        /\ calls[1].op = "deleteThought" => calls[1].id \in calls[1].sel0) =>
          \A t \in {calls[1].th} :
             /\ threads'[t].updatedAt >= calls[1].at0
             /\ dbThreads'[t] = threads'[t]]_vars

\* C19: in a serial run of importData on a document whose threads field is an array of n
\* threads, every step that adds a thread adds one whose id is neither an id the store
\* held at the call nor the id in the file; its list holds one thought per thought of the
\* file, in file order, each with an id that is new to persistence and to every list,
\* selected, with the text and the order of the file (the index where the file gives no
\* order), persisted as it is in memory; threadCounts and selectedCounts of the thread
\* equal the number of its thoughts; and when importData returns the store holds the
\* threads it held at the call and n more.
C19_ImportAddsFreshThreads ==
    /\ [][(/\ Len(calls) = 1
           /\ calls[1].op = "importData"
           /\ DOMAIN threads' # DOMAIN threads) =>
             LET c == calls[1]
                 f == c.doc.items[c.k]
                 n == Len(f.thoughts)
             IN \A t \in {c.th} :
                   /\ DOMAIN threads' = DOMAIN threads \cup {t}
                   /\ t \notin DOMAIN threads
                   /\ t \notin c.thr0
                   /\ t # f.id
                   /\ t \in DOMAIN dbThreads' /\ dbThreads'[t] = threads'[t]
                   /\ Len(List(t)') = n
                   /\ Cardinality(Range(List(t)')) = n
                   /\ \A j \in 1..n :
                         \A x \in {c.new[j]} :
                            /\ List(t)'[j] = x
                            /\ x \notin c.db0
                            /\ \A u \in DOMAIN threads : x \notin Range(List(u))
                            /\ obj'[x].th = t
                            /\ obj'[x].selected
                            /\ obj'[x].text = f.thoughts[j].text
                            /\ obj'[x].order = IF f.thoughts[j].order = NoOrder
                                               THEN j - 1 ELSE f.thoughts[j].order
                            /\ obj'[x].author = f.thoughts[j].author
                            /\ x \in DOMAIN db' /\ db'[x] = obj'[x]
                   /\ threadCounts'[t] = n
                   /\ selectedCounts'[t] = n]_vars
    /\ [][(Completes("importData") /\ ~calls[1].failed) =>
             /\ calls[1].thr0 \subseteq DOMAIN threads'
             /\ Cardinality(DOMAIN threads') =
                   Cardinality(calls[1].thr0) + Len(calls[1].doc.items)]_vars

\* The same document has been imported twice: two imported threads hold the same
\* thought, under different ids.
C19_Witness ==
    /\ calls = <<>>
    /\ \E t, u \in DOMAIN threads \ ThreadIds :
          /\ t # u
          /\ Len(List(t)) = 1 /\ Len(List(u)) = 1
          /\ List(t)[1] # List(u)[1]
          /\ obj[List(t)[1]].text = 11 /\ obj[List(u)[1]].text = 11
          /\ obj[List(t)[1]].selected /\ obj[List(u)[1]].selected

\* C20: in a run of the operations on threads, the only step that starts no Gateway call
\* is importData on a document whose threads field is missing or is not an array: it
\* rejects with 'Invalid import data' and leaves the threads, thoughts and counters of
\* the store, its error field and the three object stores as they were.
C20_InvalidImportFailsWhole ==
    [][(calls = <<>> /\ calls' = <<>>) =>
          /\ thrown' = "Invalid import data"
          /\ threads' = threads
          /\ Memory' = Memory
          /\ error' = error
          /\ db' = db
          /\ dbThreads' = dbThreads
          /\ dbSettings' = dbSettings]_vars

\* An invalid document was refused by a store that holds a thread made in the run, with
\* thoughts.
C20_Witness ==
    /\ thrown = "Invalid import data"
    /\ calls = <<>>
    /\ \E t \in DOMAIN threads \ ThreadIds : List(t) # <<>>

\* This step issues the title request of a generateThreadTitle.
IssuesTitleRequest ==
    /\ Len(calls') = Len(calls) + 1
    /\ calls'[Len(calls')].op = "generateThreadTitle"

\* C21: a step issues the AI title request of generateThreadTitle(t) only if thread t is
\* in the store with the title 'Untitled', the settings hold an apiKey and a model, and
\* the list of t holds a selected thought; and that step changes nothing else: no field
\* of the store, no object store, no setting.
C21_TitleRequestGuarded ==
    [][IssuesTitleRequest =>
          \A t \in AllThreadIds :
             t = calls'[Len(calls')].th =>
                /\ t \in DOMAIN threads
                /\ threads[t].title = "Untitled"
                /\ settings.apiKey # "" /\ settings.model # ""
                /\ \E x \in Range(List(t)) : obj[x].selected
                /\ calls'[Len(calls')].context # <<>>
                /\ threads' = threads /\ Memory' = Memory
                /\ db' = db /\ dbThreads' = dbThreads /\ dbSettings' = dbSettings
                /\ error' = error /\ isGenerating' = isGenerating]_vars

\* A title request is pending for a thread whose list also holds an unselected thought.
C21_Witness ==
    /\ Len(calls) = 1
    /\ calls[1].op = "generateThreadTitle"
    /\ calls[1].pc = "generateTitle"
    /\ \E x \in Range(List(calls[1].th)) : ~obj[x].selected

\* C22: in a serial run no step of generateThreadTitle sets the error field, rejects a
\* promise or changes isGenerating; the step in which it returns while the title request
\* is pending (the request rejected) leaves the thread, its title included, as it was in
\* memory and in persistence; and a failed save leaves persistence as it was.
C22_TitleFailuresSwallowed ==
    /\ [][(Len(calls) = 1 /\ calls[1].op = "generateThreadTitle") =>
             /\ error' = error
             /\ thrown' = thrown
             /\ isGenerating' = isGenerating]_vars
    /\ [][(Completes("generateThreadTitle") /\ calls[1].pc = "generateTitle") =>
             /\ threads' = threads
             /\ dbThreads' = dbThreads]_vars
    /\ [][(Len(calls) = 1 /\ calls[1].op = "generateThreadTitle"
           /\ (calls[1].failed \/ (calls' # <<>> /\ calls'[1].failed))) =>
             dbThreads' = dbThreads]_vars

\* The title request resolved and the save of the thread fails: the new title is in
\* memory only.
C22_Witness ==
    /\ Len(calls) = 1
    /\ calls[1].op = "generateThreadTitle"
    /\ calls[1].failed
    /\ threads[calls[1].th].title = "Title"
    /\ dbThreads[calls[1].th].title = "Untitled"

\* C23: once loadThreads has loaded the threads and returned without an error, memory
\* holds every persisted thread with a generationCount, and no persisted thread is left
\* without one: the thread whose record lacked the field was written back with 3.
C23_BackfillPersisted ==
    (calls = <<>> /\ error = "none" /\ DOMAIN threads # {})
        => /\ \A t \in DOMAIN threads : threads[t].generationCount # NoCount
           /\ \A t \in DOMAIN dbThreads : dbThreads[t].generationCount # NoCount

\* This step is the rejection of a read of the loadThreads in flight that Promise.all
\* passes on to the catch: of getAllThreads, or of the first count lookup to reject.
LoadRejected ==
    /\ Len(calls) = 1 /\ calls[1].op = "loadThreads"
    /\ \/ calls[1].pc = "getAllThreads" /\ calls[1].failed /\ calls' = <<>>
       \/ /\ calls[1].pc = "counts" /\ ~Caught(calls[1])
          /\ Len(calls') = 1
          /\ \E t \in calls[1].bad : calls'[1].ids = calls[1].ids \ {t}

\* C24: the step in which getAllThreads or a count lookup of loadThreads rejects sets
\* the error field, leaves isLoading false and rejects no promise of the store; and
\* whenever isLoading is true it is false again later, if every read that was issued
\* returns or rejects.
C24_LoadFailureRecorded ==
    /\ [][LoadRejected => /\ error' = "read failed"
                          /\ ~store'.isLoading
                          /\ thrown' = thrown]_vars
    /\ [][thrown' = "none"]_vars
    /\ (store.isLoading ~> ~store.isLoading)

\* The threads were loaded, a count lookup rejected and loadThreads has returned.
C24_Witness ==
    /\ calls = <<>>
    /\ error = "read failed"
    /\ ~store.isLoading
    /\ DOMAIN threads # {}
    /\ DOMAIN threadCounts # DOMAIN threads

\* C25: in a serial run, the step in which editThought(t, id, newText) edits a thought of
\* the list of t leaves that thought with the text newText without its surrounding
\* whitespace and with edited true, hands that thought to persistence, and leaves its
\* order, selected, starred, author and thread, every other thought, the list and both
\* counters as they were; the step in which it returns changes none of these; and no
\* step of adding, selecting, deleting, editing or loading thoughts turns edited from
\* true to false.
C25_EditFrame ==
    /\ [][Calls("editThought") =>
            LET id == calls'[1].id
                n == calls'[1].newText
            IN /\ obj'[id].text < Pad
               /\ obj'[id].text \in {n, n - Pad}
               /\ obj'[id].edited
               /\ obj' = [obj EXCEPT ![id].text = obj'[id].text, ![id].edited = TRUE]
               /\ db' = Put(db, id, obj'[id])
               /\ UNCHANGED <<thoughts, heap, threadCounts, selectedCounts, threads>>]_vars
    /\ [][Completes("editThought") =>
            UNCHANGED <<thoughts, heap, obj, db, threadCounts, selectedCounts>>]_vars
    /\ [][\A x \in DOMAIN obj : obj[x].edited => x \in DOMAIN obj' /\ obj'[x].edited]_vars

\* A candidate was edited with a padded text, selected and loaded again.
C25_Witness ==
    /\ calls = <<>>
    /\ \E x \in Range(List(1)) :
         /\ obj[x].edited /\ obj[x].text = 20
         /\ obj[x].author = "ai" /\ obj[x].selected
    /\ \E x \in Range(List(1)) : obj[x].author = "ai" /\ ~obj[x].edited

\* C26: in a serial run, a toggleSelected that deselects a thought or selects a thought
\* of the user flips that one flag in the step that issues it, writing the thought and
\* nothing else to persistence, and returns with the list of the thread as it was
\* called, no thought deleted from persistence, threadCounts unchanged, every other
\* flag as it was and selectedCounts one lower (deselected) or one higher (selected).
C26_NoCascade ==
    /\ [][(Calls("toggleSelected")
             /\ (calls'[1].was \/ obj[calls'[1].id].author = "user"))
          => /\ obj' = [obj EXCEPT ![calls'[1].id].selected = ~@]
             /\ db' = Put(db, calls'[1].id, obj'[calls'[1].id])
             /\ UNCHANGED <<thoughts, heap, threadCounts, selectedCounts>>]_vars
    /\ [][(Completes("toggleSelected")
             /\ (calls[1].was \/ obj[calls[1].id].author = "user"))
          => /\ \A t \in {calls[1].th} :
                  /\ List(t)' = calls[1].list0
                  /\ selectedCounts'[t] = calls[1].sc0 + (IF calls[1].was THEN -1 ELSE 1)
                  /\ SelectedIn(List(t))' =
                        IF calls[1].was THEN calls[1].sel0 \ {calls[1].id}
                        ELSE calls[1].sel0 \cup {calls[1].id}
             /\ DOMAIN db' = calls[1].db0
             /\ UNCHANGED <<threadCounts, db>>]_vars

\* The thought of the user was deselected and the toggle has returned: the two
\* candidates are still in the list and nothing is counted as selected.
C26_Witness ==
    /\ calls = <<>>
    /\ Len(List(1)) = 3
    /\ \E x \in Range(List(1)) : obj[x].author = "user" /\ ~obj[x].selected
    /\ Cardinality({y \in Range(List(1)) : obj[y].author = "ai" /\ ~obj[y].selected}) = 2
    /\ selectedCounts[1] = 0
    /\ threadCounts[1] = 3

\* This step is the synchronous part of a call of op: it ends at the first await.
Issues(op) == /\ Len(calls') = Len(calls) + 1
              /\ calls'[Len(calls')].op = op
              /\ SubSeq(calls', 1, Len(calls)) = calls

\* C27: the step in which addUserThought or toggleSelected runs up to its first
\* persistence await has already updated the counters of the thread: addUserThought has
\* added one to threadCounts and to selectedCounts, toggleSelected has moved
\* selectedCounts by one in the direction of its flip.
C27_CountersBeforeAwait ==
    [][\A t \in AllThreadIds :
         /\ (Issues("addUserThought") /\ calls'[Len(calls')].th = t)
              => /\ threadCounts'[t] = threadCounts[t] + 1
                 /\ selectedCounts'[t] = selectedCounts[t] + 1
         /\ (Issues("toggleSelected") /\ calls'[Len(calls')].th = t)
              => selectedCounts'[t] =
                    selectedCounts[t] + (IF calls'[Len(calls')].was THEN -1 ELSE 1)]_vars

\* C28: isGenerating is true only while a generateBatch that has issued its request is
\* in flight, and whenever it is true it is false again later, if every Gateway call
\* that was issued returns or rejects: after a success, a failed or cancelled request,
\* and a rejected saveThoughts or saveThread of the success path alike.
C28_GeneratingEnds ==
    /\ [](isGenerating => \E i \in 1..Len(calls) : Gen(i) /\ calls[i].pc # "deleteThoughts")
    /\ (isGenerating ~> ~isGenerating)

\* A write of the success path was rejected and the generation has returned.
C28_Witness ==
    /\ calls = <<>>
    /\ error = "write failed"
    /\ ~isGenerating
    /\ abortController = 0

\* This step is the return of the batch deletion of the cascade of a toggleSelected.
CascadeEnds == \E i \in 1..Len(calls) : /\ calls[i].op = "toggleSelected"
                                        /\ calls[i].pc = "deleteThoughts"
                                        /\ calls' = Without(i)

\* C29: the step in which the cascade of a toggleSelected drops thoughts from the list of
\* a thread drops no thought that is selected in that step, and leaves selectedCounts as
\* it is, also when another toggleSelected ran while the deletion was awaited.
C29_CascadeDropsUnselected ==
    [][CascadeEnds =>
         /\ \A t \in ThreadIds : \A x \in Range(List(t)) :
               x \notin Range(List(t))' => ~obj[x].selected
         /\ selectedCounts' = selectedCounts]_vars

\* This step is the return of saveThought to the toggleSelected calls[i].
ToggleSaved(i) ==
    /\ calls[i].op = "toggleSelected" /\ calls[i].pc = "saveThought"
    /\ \/ calls' = Without(i)
       \/ /\ Len(calls') = Len(calls)
          /\ SubSeq(calls', 1, Len(calls) - 1) = Without(i)
          /\ calls'[Len(calls')].op = "toggleSelected"
          /\ calls'[Len(calls')].pc = "deleteThoughts"
          /\ calls'[Len(calls')].id = calls[i].id

\* C30: when saveThought returns to a toggleSelected, the call moves selectedCounts of
\* its thread by the direction of its own flip: one down when it found the thought
\* selected, one up when it found it unselected, also when a second toggleSelected of
\* the same thought was issued before the first was awaited.
C30_DeltaFollowsOwnFlip ==
    [][\A i \in 1..Len(calls) : \A t \in ThreadIds :
          (ToggleSaved(i) /\ calls[i].th = t)
             => selectedCounts'[t] = selectedCounts[t] + (IF calls[i].was THEN -1 ELSE 1)]_vars

\* This step is the return of the generateBatch calls[i]: its catch or its success path,
\* followed by its finally.
GenerationReturns(i) == Gen(i) /\ calls[i].pc # "deleteThoughts" /\ calls' = Without(i)

\* C31: isGenerating is true only while abortController holds a handle, and the step in
\* which a cancelled generateBatch returns leaves the handle of another generation, one
\* started after the cancellation, in abortController.
C31_HandleOfNewerKept ==
    /\ [](isGenerating => abortController # 0)
    /\ [][\A i \in 1..Len(calls) :
            (GenerationReturns(i) /\ calls[i].aborted
               /\ abortController # 0 /\ abortController # calls[i].ctl)
            => abortController' = abortController]_vars

\* C32: once deleteThread has removed a thread from this.threads, no step gives it an
\* entry in thoughts, threadCounts or selectedCounts again or writes its record or a
\* thought of it to persistence, also not the steps of a generateBatch that was in
\* flight for it when it was deleted.
C32_DeletedStaysDeleted ==
    [][\A t \in ThreadIds :
         t \notin DOMAIN threads =>
            /\ thoughts[t] = NoRef => thoughts'[t] = NoRef
            /\ t \notin DOMAIN threadCounts => t \notin DOMAIN threadCounts'
            /\ t \notin DOMAIN selectedCounts => t \notin DOMAIN selectedCounts'
            /\ t \notin DOMAIN dbThreads => t \notin DOMAIN dbThreads'
            /\ ThoughtsOf(db, t)' \subseteq ThoughtsOf(db, t)]_vars

\* C33: the step in which the batch deletion returns to the cascade of a toggleSelected
\* leaves the list of the thread as it is in that step minus the thoughts the cascade
\* deleted, whatever other operations did to the list while the deletion was awaited.
C33_OnlyDeletedRemoved ==
    [][\A i \in 1..Len(calls) : \A t \in ThreadIds :
          (/\ calls[i].op = "toggleSelected" /\ calls[i].pc = "deleteThoughts"
           /\ calls[i].th = t
           /\ calls' = Without(i))
          => List(t)' = Remaining(List(t), calls[i].ids)]_vars

\* C34: the step in which the answer of the AI is applied by generateThreadTitle changes
\* the title of a thread only when that title is 'Untitled' in that step: a title the
\* user or another generateThreadTitle has set while the request was pending stays.
C34_TitleSetOnlyOverSentinel ==
    [][\A i \in 1..Len(calls) : \A t \in DOMAIN threads :
          (/\ calls[i].op = "generateThreadTitle" /\ calls[i].pc = "generateTitle"
           /\ calls[i].th = t
           /\ calls' # calls
           /\ threads[t].title # "Untitled")
          => threads'[t].title = threads[t].title]_vars

\* C35: in a serial run of addUserThought, toggleSelected, deleteThought,
\* pruneUnselected, generateBatch and loadThoughts on a loaded thread, whenever no call
\* is in flight threadCounts of the thread is the length of its list.
C35_ThreadCountIsLength ==
    calls = <<>> => \A t \in ThreadIds : threadCounts[t] = Len(List(t))

\* A cascade has removed a candidate, a thought was added and the thoughts were loaded
\* again: the list holds a thought created in the run and lacks a loaded one.
C35_Witness ==
    /\ calls = <<>>
    /\ \E x \in Range(List(1)) : x >= FirstFresh
    /\ \E x \in Range(List(1)) : obj[x].author = "ai" /\ obj[x].selected
    /\ \E x \in 1..(FirstFresh - 1) : x \in DOMAIN obj /\ x \notin Range(List(1))
    /\ thoughts[1] # 1
    /\ threadCounts[1] = Len(List(1))

\* C36: in a serial run, whenever no call is in flight, no unselected ai thought stands
\* before a selected thought in visibleStream of the thread.
C36_SelectedFirst ==
    calls = <<>> =>
        \A t \in ThreadIds : \A i, j \in DOMAIN visibleStream(t) :
            (i < j /\ obj[visibleStream(t)[j]].selected)
                => ~IsCandidate(visibleStream(t)[i])

\* C37: whenever no call is in flight (the runs hold no failing Gateway call), the
\* thoughts persisted for a thread are the thoughts of its list, with the same fields,
\* also after operations that overlapped.
C37_PersistenceIsMemory ==
    calls = <<>> =>
        \A t \in ThreadIds :
            /\ ThoughtsOf(db, t) = Range(List(t))
            /\ \A x \in Range(List(t)) : db[x] = obj[x]

\* C38: in a serial run, whenever no call is in flight, every thought of starredThoughts
\* is persisted with starred = true.
C38_CacheHoldsPersistedStarred ==
    calls = <<>> =>
        \A k \in DOMAIN store.starredThoughts :
            /\ store.starredThoughts[k] \in DOMAIN db
            /\ db[store.starredThoughts[k]].starred

\* C39: when a toggleSelected ends because its Gateway write rejected, selectedCounts of
\* every thread is the number of selected thoughts of the thread's list.
C39_CountsAfterFailedToggle ==
    [][\A i \in 1..Len(calls) :
          (calls[i].op = "toggleSelected" /\ calls[i].failed /\ calls' = Without(i))
          => \A t \in ThreadIds :
                selectedCounts'[t] = Cardinality(SelectedIn(List(t)))']_vars

\* C40: when a generateBatch ends because the saveThread of its success path rejected,
\* each candidate of its batch is persisted exactly if it is in the list of the thread.
C40_BatchSavedAndListedOrNeither ==
    [][\A i \in 1..Len(calls) :
          (Gen(i) /\ calls[i].pc = "saveThread" /\ calls[i].failed /\ calls' = Without(i))
          => \A t \in ThreadIds : t = calls[i].th =>
                \A x \in Range(calls[i].new) :
                    (x \in DOMAIN db') <=> (x \in Range(List(t))')]_vars
====
